---- MODULE Spec2Model ----
(***************************************************************************)
(* A model of gkeep.nvim's file synchronisation engine                     *)
(* (rplugin/python3/gkeep/fssync.py) together with the parts of the host   *)
(* (plugin.py), the note store (api.py), the addressing (util.py) and the  *)
(* text codec (parser/) that the engine calls.                             *)
(*                                                                         *)
(* Abstractions.  A note file is the record of what its lines say: header  *)
(* title, header id (NoId when the file has no `id:` line) and body text.  *)
(* Two files have equal bytes iff these records are equal, so the md5      *)
(* comparison of _content_changed is record inequality.  A path is a       *)
(* record (directory, escaped file name, id qualifier, .local suffix); a   *)
(* virtual address gkeep://id/title is the path of directory "gkeep".      *)
(* The current date of a backup title is a fixed string.                   *)
(*                                                                         *)
(* A behaviour is one session of the plugin over the disk and the state    *)
(* file an earlier session left: the user changes files while the plugin   *)
(* is down, the plugin starts, syncs, reconciles (finish_startup) and then *)
(* writes back what later syncs deliver (write_files).                     *)
(***************************************************************************)
EXTENDS Integers, Sequences, FiniteSets, TLC

VARIABLES
    state,          \* config.state (SyncState)
    syncArchived,   \* config.sync_archived_notes
    labels,         \* KeepApi: the names of the labels of the account
    modal,          \* ModalManager: the prompt or confirm window that is open
    notes,          \* KeepApi: the live note graph, id -> note
    counts,         \* KeepApi._title_count and _archived_title_count
    cache,          \* the state file written by config.save_state
    disk,           \* the file system below sync_dir, path -> content
    protected,      \* FileSync._protected_files
    updated,        \* the ids apply_updates returned for the pass at hand
    pending,        \* the NoteFile snapshots handed to the write-back thread
    renames,        \* the rename map the last engine operation returned
    pc,             \* where the initial sync's callback stands
    lastOp,         \* the engine or host step that ran last
    log,            \* what the last engine operation did, in order
    syncs,          \* the sync cycles completed while Running
    edits,          \* the changes the user made to the disk
    threads,        \* the background threads started so far, in order
    locks,          \* thread_util.background: the lock of each operation
    queue           \* the calls handed to the host's loop by util.dispatch

vars == <<state, syncArchived, labels, modal, notes, counts, cache, disk,
          protected, updated, pending, renames, pc, lastOp, log, syncs, edits,
          threads, locks, queue>>

hostVars == <<threads, locks, queue>>

\* no prompt and no confirm window is open (their _callback is None)
NoModal == [kind |-> "none", on |-> ""]

\* the operations plugin.py and api.py run through thread_util.background
Operations == {"_resume", "_sync_notes", "_write_files"}

\* threading.Lock() of wrap_lock: 0 when free, else the holding thread
NoLocks == [op \in Operations |-> 0]

\* no background thread started, nothing queued for the host's loop
HostIdle ==
    /\ threads = <<>>
    /\ locks = NoLocks
    /\ queue = <<>>

(***************************************************************************)
(* Bounds and value sets                                                   *)
(***************************************************************************)
MaxId == 3
MaxSyncs == 1
MaxEdits == 1
NoId == 0
RemoteIds == {1, 2}
Ids == 1..MaxId
Titles == {"A", "B"}
Texts == {"x", "y"}
Today == "2021-04-05"

EmptyMap == [x \in {} |-> 0]

Remove(f, k) == [x \in DOMAIN f \ {k} |-> f[x]]

SetKey(f, k, v) == [x \in DOMAIN f \cup {k} |-> IF x = k THEN v ELSE f[x]]

\* A Python dict that is iterated: a sequence of <<key, value>> in insertion
\* order; assigning to a key it holds keeps the key's place.
Keys(dict) == {dict[i][1] : i \in DOMAIN dict}

DictSet(dict, k, v) ==
    IF k \in Keys(dict)
    THEN [i \in DOMAIN dict |-> IF dict[i][1] = k THEN <<k, v>> ELSE dict[i]]
    ELSE Append(dict, <<k, v>>)

DictGet(dict, k) == dict[CHOOSE i \in DOMAIN dict : dict[i][1] = k][2]

(***************************************************************************)
(* Naming / addressing (util.py)                                           *)
(***************************************************************************)
escape(title) == IF title = "A!" THEN "A" ELSE title

NoPath == [dir |-> "none", name |-> "", qual |-> NoId, local |-> FALSE]

get_local_file(p) == [p EXCEPT !.local = TRUE]

is_ephemeral(p) == p.dir = "gkeep"

ephemeral_bufname(id, title) ==
    [dir |-> "gkeep", name |-> title, qual |-> id, local |-> FALSE]

\* The counters are the pair c = [plain, archived] of KeepApi's two Counters
Count(counter, key) == IF key \in DOMAIN counter THEN counter[key] ELSE 0

has_unique_title(n, c) ==
    LET counter == IF n.archived THEN c.archived ELSE c.plain
    IN  Count(counter, escape(n.title)) < 2

_get_filename(id, n, c) ==
    IF has_unique_title(n, c)
    THEN [name |-> escape(n.title), qual |-> NoId]
    ELSE [name |-> escape(n.title), qual |-> id]

filepath(id, n, c) ==
    IF n.trashed THEN NoPath
    ELSE IF n.archived /\ ~syncArchived THEN NoPath
    ELSE LET fn == _get_filename(id, n, c)
         IN  [dir |-> IF n.archived THEN "archived" ELSE "sync",
              name |-> fn.name, qual |-> fn.qual, local |-> FALSE]

bufname(id, n, c) ==
    IF filepath(id, n, c) # NoPath THEN filepath(id, n, c)
    ELSE ephemeral_bufname(id, n.title)

(***************************************************************************)
(* Codec (parser/keep.py).  A file is the record [title, id, text] of its  *)
(* header and its body; the body of a checklist is the sequence of its     *)
(* lines.  A line is the record [kind, indented, box, text]: kind "item"   *)
(* is a line LIST_ITEM_RE matches (leading whitespace, checkbox, text),    *)
(* "raw" a line it does not match, "blank" a line of whitespace.           *)
(***************************************************************************)
SortStep == 1000000

\* str.strip() and the \s* of LIST_ITEM_RE, on the strings of the model:
\* " A" and " a" are the values that carry whitespace around them
strip(str) == IF str = " A" THEN "A" ELSE IF str = " a" THEN "a" ELSE str

\* A checklist item is an object of its own: ref names the object, and parent
\* is the ref of the item it is indented under (NoRef: not indented)
NoRef == [note |-> NoId, k |-> 0]

BlankLine == [kind |-> "blank", indented |-> FALSE, box |-> " ", text |-> ""]

ItemAt(items, ref) == items[CHOOSE j \in DOMAIN items : items[j].ref = ref]

subitems(items, ref) == {j \in DOMAIN items : items[j].parent = ref}

SetChecked(items, ref, c) ==
    [j \in DOMAIN items |->
        IF items[j].ref = ref THEN [items[j] EXCEPT !.checked = c] ELSE items[j]]

SetParent(items, ref, par) ==
    [j \in DOMAIN items |->
        IF items[j].ref = ref THEN [items[j] EXCEPT !.parent = par] ELSE items[j]]

\* One line of _gen_list_body
ListLine(items, k) ==
    LET item == items[k]
        partial == /\ item.parent = NoRef
                   /\ ~item.checked
                   /\ \E j \in subitems(items, item.ref) : items[j].checked
    IN  [kind |-> "item",
         indented |-> item.parent # NoRef,
         box |-> IF partial THEN "-" ELSE IF item.checked THEN "x" ELSE " ",
         text |-> item.text]

_gen_list_body(n) == [k \in DOMAIN n.items |-> ListLine(n.items, k)]

\* _gen_header yields the stripped title; the body is note.text or the lines
\* of the checklist
serialize(id, n) ==
    [title |-> strip(n.title), id |-> id,
     text |-> IF n.kind = "list" THEN _gen_list_body(n) ELSE n.text]

\* What the loop of _parse_list_body reads from a line that is not blank
LineMatch(line) ==
    [indented |-> line.indented,
     checked |-> line.kind = "item" /\ line.box = "x",
     text |-> strip(line.text)]

\* A pop that finds no item under any text
PoolIndex_none(pool, text) == 0

\* A pop that takes the last item added under the text
PoolIndex_last(pool, text) ==
    IF \E j \in DOMAIN pool : pool[j].text = text
    THEN CHOOSE j \in DOMAIN pool :
            pool[j].text = text /\ \A m \in (j + 1)..Len(pool) : pool[m].text # text
    ELSE 0

\* ListItemDict.pop: the first item added under the text, 0 when there is none
PoolIndex(pool, text) ==
    IF \E j \in DOMAIN pool : pool[j].text = text
    THEN CHOOSE j \in DOMAIN pool :
            pool[j].text = text /\ \A m \in 1..(j - 1) : pool[m].text # text
    ELSE 0

RemoveAt(seq, j) == SubSeq(seq, 1, j - 1) \o SubSeq(seq, j + 1, Len(seq))

_dedent(items, ref) == SetParent(items, ref, NoRef)

\* _indent: the item's own subitems are dedented, then parent.indent(item)
_indent(items, ref, parent) ==
    [j \in DOMAIN items |->
        IF items[j].ref = ref THEN [items[j] EXCEPT !.parent = parent]
        ELSE IF items[j].parent = ref THEN [items[j] EXCEPT !.parent = NoRef]
        ELSE items[j]]

\* Branches that leave an indented item under the parent it has
SetIndent_same_parent(items, ref, indented, parent) ==
    IF (ItemAt(items, ref).parent # NoRef) # indented
    THEN IF indented THEN _indent(items, ref, parent) ELSE _dedent(items, ref)
    ELSE items

\* The indentation branches of the loop of _parse_list_body
SetIndent(items, ref, indented, parent) ==
    IF (ItemAt(items, ref).parent # NoRef) # indented
    THEN IF indented THEN _indent(items, ref, parent) ELSE _dedent(items, ref)
    ELSE IF indented /\ parent # ItemAt(items, ref).parent
    THEN SetParent(_dedent(items, ref), ref, parent)
    ELSE items

\* A LineItem whose new item lies two steps below the last sort
LineItem_two_steps(r, m) ==
    IF PoolIndex(r.pool, m.text) # 0
    THEN ItemAt(r.items, r.pool[PoolIndex(r.pool, m.text)].ref)
    ELSE [ref |-> [note |-> r.id, k |-> r.next], text |-> m.text,
          checked |-> m.checked,
          sort |-> IF r.last_sort.has THEN r.last_sort.v - 2 * SortStep ELSE 0,
          parent |-> NoRef]

\* The item the line is given: the one popped, or the one note.add makes
LineItem(r, m) ==
    IF PoolIndex(r.pool, m.text) # 0
    THEN ItemAt(r.items, r.pool[PoolIndex(r.pool, m.text)].ref)
    ELSE [ref |-> [note |-> r.id, k |-> r.next], text |-> m.text,
          checked |-> m.checked,
          sort |-> IF r.last_sort.has THEN r.last_sort.v - SortStep ELSE 0,
          parent |-> NoRef]

\* An update that takes the checkbox of the line as it is
UpdateItem_own_box(items, item, m, indented, parent) ==
    SetIndent(
        IF item.checked # m.checked
        THEN SetChecked(items, item.ref, ~item.checked)
        ELSE items,
        item.ref, indented, parent)

\* The attributes the line sets on its item
UpdateItem(items, item, m, indented, parent) ==
    SetIndent(
        IF item.checked # (m.checked \/ (indented /\ ItemAt(items, parent).checked))
        THEN SetChecked(items, item.ref, ~item.checked)
        ELSE items,
        item.ref, indented, parent)

\* One iteration of the loop of _parse_list_body, for line with match m on
\* item (r carries the locals of the function and the note's item objects)
ParseItem(r, m, item, found, indented) ==
    [r EXCEPT
        !.items = UpdateItem(IF found THEN @ ELSE Append(@, item),
                             item, m, indented, r.parent),
        !.pool = IF found THEN RemoveAt(@, PoolIndex(@, m.text)) ELSE @,
        !.next = IF found THEN @ ELSE @ + 1,
        !.last_sort = [has |-> TRUE, v |-> item.sort],
        !.resort = @ \/ (r.last_sort.has /\ item.sort >= r.last_sort.v),
        !.new_items = Append(@, item.ref),
        !.parent = IF indented THEN @ ELSE item.ref,
        !.dirty = @ \/ ~found
                    \/ UpdateItem(r.items, item, m, indented, r.parent) # r.items]

\* if indented: if parent is None: indented = False
LineIndented(r, line) == LineMatch(line).indented /\ r.parent # NoRef

\* A loop that does not skip the lines that are blank
ParseLine_no_skip(r, line) ==
    ParseItem(r, LineMatch(line), LineItem(r, LineMatch(line)),
              PoolIndex(r.pool, LineMatch(line).text) # 0,
              LineIndented(r, line))

ParseLine(r, line) ==
    IF line.kind = "blank" THEN r
    ELSE ParseItem(r, LineMatch(line), LineItem(r, LineMatch(line)),
                   PoolIndex(r.pool, LineMatch(line).text) # 0,
                   LineIndented(r, line))

RECURSIVE ParseLines(_, _)
ParseLines(r, lines) ==
    IF lines = <<>> THEN r
    ELSE ParseLines(ParseLine(r, Head(lines)), Tail(lines))

\* A resort that leaves the sorts as they are
Renumber_skipped(items, new_items) == items

\* if resort: the items of the lines are numbered 0, -1000000, ... in order
Renumber(items, new_items) ==
    [j \in DOMAIN items |->
        IF \E k \in DOMAIN new_items : new_items[k] = items[j].ref
        THEN [items[j] EXCEPT !.sort =
                (1 - (CHOOSE k \in DOMAIN new_items : new_items[k] = items[j].ref))
                    * SortStep]
        ELSE items[j]]

\* The order of note.items: by sort, descending, an indented item after its
\* parent and among the parent's other subitems
Before(items, x, y) ==
    LET kx == IF x.parent = NoRef THEN x.sort ELSE ItemAt(items, x.parent).sort
        ky == IF y.parent = NoRef THEN y.sort ELSE ItemAt(items, y.parent).sort
    IN  IF kx # ky THEN kx > ky
        ELSE IF x.parent = NoRef THEN y.parent # NoRef
        ELSE y.parent # NoRef /\ x.sort > y.sort

sorted_items(all, items) == SortSeq(items, LAMBDA x, y : Before(all, x, y))

Unmatched(pool, ref) == \E j \in DOMAIN pool : pool[j].ref = ref

\* An end of _parse_list_body that deletes nothing
FinishList_keep_all(n, r, items) ==
    [n EXCEPT !.items = sorted_items(items, items),
              !.dirty = @ \/ r.dirty \/ items # r.items]

\* The end of _parse_list_body: the renumbering, and missing.delete() for
\* what the lines left in the ListItemDict
FinishList(n, r, items) ==
    [n EXCEPT
        !.items = sorted_items(items,
                      SelectSeq(items, LAMBDA x : ~Unmatched(r.pool, x.ref))),
        !.dirty = @ \/ r.dirty \/ items # r.items \/ r.pool # <<>>]

\* The locals of _parse_list_body before its loop
ListLocals(n, id) ==
    [id |-> id,
     items |-> n.items,
     pool |-> [j \in DOMAIN n.items |->
                 [ref |-> n.items[j].ref, text |-> n.items[j].text]],
     parent |-> NoRef,
     new_items |-> <<>>,
     last_sort |-> [has |-> FALSE, v |-> 0],
     resort |-> FALSE,
     dirty |-> FALSE,
     next |-> 1 + Len(n.items)]

\* The assertions of one iteration of the loop that fail
LineAsserts(r, line) ==
    IF line.kind = "blank" THEN {}
    ELSE (IF LineIndented(r, line) /\ r.parent = NoRef
          THEN {"parent is not None"} ELSE {})
           \cup (IF /\ (LineItem(r, LineMatch(line)).parent # NoRef) # LineIndented(r, line)
                    /\ ~LineIndented(r, line)
                    /\ LineItem(r, LineMatch(line)).parent = NoRef
                 THEN {"item.parent_item is not None"} ELSE {})

RECURSIVE Failures(_, _)
Failures(r, lines) ==
    IF lines = <<>> THEN {}
    ELSE LineAsserts(r, Head(lines))
            \cup Failures(ParseLine(r, Head(lines)), Tail(lines))

_parse_list_body(lines, n, id) ==
    LET r == ParseLines(ListLocals(n, id), lines)
    IN  FinishList(n, r, IF r.resort THEN Renumber(r.items, r.new_items) ELSE r.items)

\* A _sync_header that assigns the title whether it differs or not
_sync_header_always(file, n) == [n EXCEPT !.title = file.title, !.dirty = TRUE]

\* _sync_header: the title is assigned when it differs
_sync_header(file, n) ==
    IF n.title # file.title
    THEN [n EXCEPT !.title = file.title, !.dirty = TRUE] ELSE n

\* keep.parse: _sync_header, then parse_note_body or _parse_list_body; they
\* assign only what differs, and every assignment touches the note (dirty)
parse(file, n) ==
    IF n.kind = "list" THEN _parse_list_body(file.text, _sync_header(file, n), file.id)
    ELSE IF _sync_header(file, n).text # file.text
    THEN [_sync_header(file, n) EXCEPT !.text = file.text, !.dirty = TRUE]
    ELSE _sync_header(file, n)

url_from_file(p) == IF p.local \/ p.dir \notin {"sync", "archived"} THEN FALSE ELSE TRUE

\* _find_files: the files below sync_dir that resolve to a note address
_find_files(d) == {p \in DOMAIN d : url_from_file(p)}

(***************************************************************************)
(* NoteFile (fssync.py)                                                    *)
(***************************************************************************)
NoLines == [title |-> "", id |-> NoId, text |-> ""]

from_note(id, n, c) ==
    [id |-> id, title |-> n.title, bufname |-> bufname(id, n, c),
     lines |-> IF is_ephemeral(bufname(id, n, c)) THEN NoLines ELSE serialize(id, n)]

(***************************************************************************)
(* File operations of fssync.py.  They act on the record w that a pass     *)
(* of _write_files carries: the disk, the rename map, the need_load list,  *)
(* files_by_id, the log of what was done and whether an exception was      *)
(* raised (err), after which nothing more is done.                         *)
(***************************************************************************)
Event(ev, p, id) == [ev |-> ev, path |-> p, id |-> id]

Written(p, lines) == [ev |-> "write", path |-> p, id |-> lines.id, lines |-> lines]

\* A comparison that finds every file changed
_content_changed_always(lines, d, filename) == TRUE

_content_changed(lines, d, filename) == d[filename] # lines

\* A soft-delete that removes the file instead of renaming it
_soft_delete_destroys(w, filename) ==
    IF filename \notin DOMAIN w.disk THEN [w EXCEPT !.err = TRUE]
    ELSE [w EXCEPT !.disk = Remove(@, filename),
                   !.log = Append(@, Event("unlink", filename, w.disk[filename].id))]

\* os.rename(filename, filename + ".local"): replaces what is at the target
_soft_delete(w, filename) ==
    IF filename \notin DOMAIN w.disk THEN [w EXCEPT !.err = TRUE]
    ELSE [w EXCEPT
            !.disk = [p \in (DOMAIN w.disk \ {filename}) \cup {get_local_file(filename)} |->
                        IF p = get_local_file(filename) THEN w.disk[filename]
                        ELSE w.disk[p]],
            !.log = Append(@, Event("softdelete", filename, w.disk[filename].id))]

\* An os.unlink that is left out
unlink_skipped(w, filename) == w

unlink(w, filename) ==
    [w EXCEPT !.disk = Remove(@, filename),
              !.log = Append(@, Event("unlink", filename, w.disk[filename].id))]

\* A _write_file that keeps a backup whether or not it is asked to
_write_file_always_backup(w, filename, lines, keep_backup) ==
    LET w1 == IF filename \in DOMAIN w.disk THEN _soft_delete(w, filename) ELSE w
    IN  [w1 EXCEPT !.disk = SetKey(@, filename, lines),
                   !.log = Append(@, Written(filename, lines))]

_write_file(w, filename, lines, keep_backup) ==
    LET w1 == IF filename \in DOMAIN w.disk /\ keep_backup
              THEN _soft_delete(w, filename) ELSE w
    IN  [w1 EXCEPT !.disk = SetKey(@, filename, lines),
                   !.log = Append(@, Written(filename, lines))]

\* A removal that soft-deletes every file, protected or not
RemoveFile_soft(w, existing_file, protected_files) == _soft_delete(w, existing_file)

\* The file of a note that has the virtual address is removed
RemoveFile(w, existing_file, protected_files) ==
    IF existing_file \in protected_files
    THEN _soft_delete(w, existing_file)
    ELSE unlink(w, existing_file)

\* files_by_id of _write_files: the file found for each id a file carries
\* a scan that finds no note file
files_by_id_none(d) == EmptyMap

files_by_id(d) ==
    LET ids == {d[p].id : p \in _find_files(d)} \ {NoId}
    IN  [i \in ids |-> CHOOSE p \in _find_files(d) : d[p].id = i]

\* One iteration of the loop over the notes in _write_files
WriteNote(w, nf, protected_files, updated_notes, initial_load) ==
    LET existing_file == IF nf.id \in DOMAIN w.byId THEN w.byId[nf.id] ELSE NoPath
        w1 == [w EXCEPT !.byId = Remove(@, nf.id)]
    IN  IF w.err THEN w
        ELSE IF is_ephemeral(nf.bufname) THEN
            IF existing_file # NoPath /\ existing_file \in DOMAIN w1.disk
            THEN [RemoveFile(w1, existing_file, protected_files)
                  EXCEPT !.renames = DictSet(@, existing_file, nf.bufname)]
            ELSE w1
        ELSE
            LET moved == existing_file # NoPath /\ existing_file # nf.bufname
                w2 == IF moved
                      THEN [w1 EXCEPT !.renames = DictSet(@, existing_file, nf.bufname)]
                      ELSE IF existing_file = NoPath
                      THEN [w1 EXCEPT !.renames =
                              DictSet(@, ephemeral_bufname(nf.id, nf.title), nf.bufname)]
                      ELSE w1
                new_filepath == IF moved THEN existing_file ELSE nf.bufname
            IN  IF new_filepath \notin DOMAIN w2.disk
                THEN _write_file(w2, new_filepath, nf.lines, FALSE)
                ELSE IF nf.id \in updated_notes
                        /\ _content_changed(nf.lines, w2.disk, new_filepath)
                THEN _write_file(w2, new_filepath, nf.lines,
                                 new_filepath \in protected_files)
                ELSE IF initial_load
                        /\ _content_changed(nf.lines, w2.disk, new_filepath)
                THEN [w2 EXCEPT !.need_load = Append(@, new_filepath)]
                ELSE w2

RECURSIVE WriteNotes(_, _, _, _, _)
WriteNotes(w, nfs, protected_files, updated_notes, initial_load) ==
    IF nfs = <<>> THEN w
    ELSE WriteNotes(WriteNote(w, Head(nfs), protected_files, updated_notes, initial_load),
                    Tail(nfs), protected_files, updated_notes, initial_load)

\* The closing loop of _write_files: files whose id matched no note
RECURSIVE SoftDeleteAll(_, _)
SoftDeleteAll(w, files) ==
    IF files = {} \/ w.err THEN w
    ELSE LET f == CHOOSE p \in files : TRUE
         IN  SoftDeleteAll(_soft_delete(w, f), files \ {f})

\* The orphan loop runs over what the loop over the notes left in files_by_id
SoftDeleteOrphans(w) == SoftDeleteAll(w, {w.byId[i] : i \in DOMAIN w.byId})

_write_files(d, protected_files, nfs, updated_notes, initial_load) ==
    LET w0 == [disk |-> d, renames |-> <<>>, need_load |-> <<>>,
               byId |-> files_by_id(d), log |-> <<>>, err |-> FALSE]
    IN  IF initial_load
        THEN SoftDeleteOrphans(WriteNotes(w0, nfs, protected_files, updated_notes, TRUE))
        ELSE WriteNotes(w0, nfs, protected_files, updated_notes, FALSE)

(***************************************************************************)
(* The note store                                                          *)
(***************************************************************************)
NewNote(title, text) ==
    [kind |-> "note", title |-> title, text |-> text, items |-> <<>>,
     trashed |-> FALSE, archived |-> FALSE, dirty |-> TRUE]

NoCache == [has |-> FALSE, notes |-> EmptyMap]

NoCounts == [plain |-> EmptyMap, archived |-> EmptyMap]

\* An id no note, cached note or resolvable file carries (ids are unique;
\* NoId when the model's ids are used up)
FreshId(store, d) ==
    LET used == DOMAIN store \cup DOMAIN cache.notes
                  \cup {d[p].id : p \in _find_files(d)}
        free == (Ids \ RemoteIds) \ used
    IN  IF free = {} THEN NoId ELSE CHOOSE i \in free : \A j \in free : i <= j

BackupTitle(title) == "[Backup " \o Today \o "] " \o title

\* The loop of _make_backup over note.items: backup.add(text, checked, sort)
\* makes a new item of the backup with these values (sort is an integer, as
\* the items the plugin numbers itself in _parse_list_body), and
\* map[item.parent_item.id].indent(new_item) puts it under the copy of the
\* item's parent
RECURSIVE CopyItems(_, _, _)
CopyItems(items, done, bid) ==
    IF Len(done) = Len(items) THEN done
    ELSE LET item == items[Len(done) + 1]
             new_item ==
                [ref |-> [note |-> bid, k |-> Len(done) + 1],
                 text |-> item.text, checked |-> item.checked, sort |-> item.sort,
                 parent |-> IF item.parent = NoRef THEN NoRef
                            ELSE done[CHOOSE j \in 1..Len(done) :
                                        items[j].ref = item.parent].ref]
         IN  CopyItems(items, Append(done, new_item), bid)

\* A backup that holds the item objects of the original
_make_backup_shared(n, bid) ==
    [kind |-> n.kind,
     title |-> BackupTitle(n.title),
     text |-> IF n.kind = "note" THEN n.text ELSE "",
     items |-> n.items,
     trashed |-> TRUE, archived |-> FALSE, dirty |-> TRUE]

\* _make_backup; bid is the id the new Note() or List() gives itself
_make_backup(n, bid) ==
    [kind |-> n.kind,
     title |-> BackupTitle(n.title),
     text |-> IF n.kind = "note" THEN n.text ELSE "",
     items |-> IF n.kind = "list" THEN CopyItems(n.items, <<>>, bid) ELSE <<>>,
     trashed |-> TRUE, archived |-> FALSE, dirty |-> TRUE]

\* A _load_file that does not parse the file
_load_file_skipped(store, d, filename) == store

\* FileSync._load_file, for a note the store holds
_load_file(store, d, filename) ==
    LET id == d[filename].id
    IN  [store EXCEPT ![id] = parse(d[filename], @)]

(***************************************************************************)
(* FileSync.start                                                          *)
(***************************************************************************)
_find_files_with_changes(store, d) ==
    {p \in _find_files(d) :
        \/ d[p].id \notin DOMAIN store
        \/ _load_file(store, d, p)[d[p].id].dirty}

\* a start that protects every note file, cached snapshot or not
start_protected_all(has_state, store, d) == _find_files(d)

start_protected(has_state, store, d) ==
    IF ~has_state THEN _find_files(d) ELSE _find_files_with_changes(store, d)

\* the store when the loop of _find_files_with_changes has parsed every
\* file into its note, before api.restore(state)
Probed(store, d) ==
    [i \in DOMAIN store |->
        IF \E p \in _find_files(d) : d[p].id = i
        THEN _load_file(store, d, CHOOSE p \in _find_files(d) : d[p].id = i)[i]
        ELSE store[i]]

\* a start that keeps the store as the probe left it
start_store_probed(has_state, snapshot, live, d) ==
    IF has_state THEN Probed(snapshot, d) ELSE live

\* the store FileSync.start leaves: restore_state(api, state), then in
\* _find_files_with_changes the dump, the probe and api.restore of the dump
start_store(has_state, snapshot, live, d) ==
    IF has_state
    THEN LET dumped == snapshot
             probed == Probed(snapshot, d)
         IN  dumped
    ELSE live

(***************************************************************************)
(* FileSync.finish_startup.  The record l carries the store, the disk, the *)
(* rename map, the log, err (an exception was raised) and full (the model  *)
(* has no id left for a new note).                                         *)
(***************************************************************************)
\* One iteration of the loop over need_load
LoadChanged(l, filename) ==
    IF l.err \/ l.full THEN l
    ELSE IF filename \notin DOMAIN l.disk THEN [l EXCEPT !.err = TRUE]
    ELSE IF l.disk[filename].id \notin DOMAIN l.notes THEN [l EXCEPT !.err = TRUE]
    ELSE LET id == l.disk[filename].id
             bid == FreshId(l.notes, l.disk)
             added == SetKey(l.notes, bid, _make_backup(l.notes[id], bid))
         IN  IF bid = NoId THEN [l EXCEPT !.full = TRUE]
             ELSE [l EXCEPT !.notes = _load_file(added, l.disk, filename),
                            !.log = @ \o <<Event("backup", filename, bid),
                                           Event("load", filename, id)>>]

RECURSIVE LoadAllChanged(_, _)
LoadAllChanged(l, need_load) ==
    IF need_load = <<>> THEN l
    ELSE LoadAllChanged(LoadChanged(l, Head(need_load)), Tail(need_load))

\* create_note_from_file for a file without an id, as _load_new_files calls it
create_note_from_file(l, filename, c) ==
    LET file == l.disk[filename]
        id == FreshId(l.notes, l.disk)
        note == NewNote(file.title, file.text)
        new_filepath == filepath(id, note, c)
    IN  IF l.err \/ l.full THEN l
        ELSE IF id = NoId THEN [l EXCEPT !.full = TRUE]
        ELSE [l EXCEPT
                !.notes = SetKey(@, id, note),
                !.disk = SetKey(@, filename, [file EXCEPT !.id = id]),
                !.log = @ \o <<Event("create", filename, id)>>,
                !.renames = IF new_filepath # NoPath /\ new_filepath # filename
                            THEN DictSet(@, filename, new_filepath) ELSE @]

RECURSIVE _load_new_files(_, _, _)
_load_new_files(l, files, c) ==
    IF files = {} THEN l
    ELSE LET f == CHOOSE p \in files : TRUE
         IN  _load_new_files(create_note_from_file(l, f, c), files \ {f}, c)

\* finish_startup after _write_files returned w: the loop over need_load
LoadNeeded(store, w) ==
    LoadAllChanged([notes |-> store, disk |-> w.disk, renames |-> w.renames,
                    log |-> w.log, err |-> w.err, full |-> FALSE], w.need_load)

\* finish_startup after the loop over need_load: _load_new_files
LoadNew(l, c) ==
    IF l.err \/ l.full THEN l
    ELSE _load_new_files(l, {p \in _find_files(l.disk) : l.disk[p].id = NoId}, c)

finish_startup(store, d, c, protected_files, order, updated_notes) ==
    LET nfs == [i \in DOMAIN order |-> from_note(order[i], store[order[i]], c)]
    IN  LoadNew(LoadNeeded(store, _write_files(d, protected_files, nfs,
                                               updated_notes, TRUE)), c)

(***************************************************************************)
(* KeepApi.apply_updates.  The server's answer resp gives, for the ids it  *)
(* names, the note's new version or Gone (the note was deleted).           *)
(***************************************************************************)
Gone == [kind |-> "gone"]

Version(title, text, trashed, archived) ==
    [kind |-> "note", title |-> title, text |-> text, items |-> <<>>,
     trashed |-> trashed, archived |-> archived, dirty |-> FALSE]

\* The versions the server may hold of each note.  Note 1 takes every title
\* and text while it is live; note 2 keeps one title and text, so that it can
\* share the title of note 1 or not.
VersionsOf(i) ==
    IF i = 1
    THEN {Version(t, x, FALSE, FALSE) : t \in Titles, x \in Texts}
           \cup {Version("A", "x", TRUE, FALSE), Version("A", "x", FALSE, TRUE)}
    ELSE {Version("A", "x", FALSE, FALSE), Version("A", "x", TRUE, FALSE)}

Responses(store, max) ==
    UNION {{r \in [S -> UNION {VersionsOf(i) : i \in RemoteIds} \cup {Gone}] :
                \A i \in S : IF r[i] = Gone THEN i \in DOMAIN store
                              ELSE r[i] \in VersionsOf(i)} :
           S \in {T \in SUBSET RemoteIds : Cardinality(T) <= max}}

\* The nodes sent up were saved (dirty cleared); then the answer is applied
apply_store(store, resp) ==
    [i \in (DOMAIN store \cup DOMAIN resp) \ {j \in DOMAIN resp : resp[j] = Gone} |->
        IF i \in DOMAIN resp THEN resp[i] ELSE [store[i] EXCEPT !.dirty = FALSE]]

apply_counts(store) ==
    [plain |-> [k \in {escape(store[i].title) : i \in
                        {j \in DOMAIN store : ~store[j].trashed /\ ~store[j].archived}} |->
                      Cardinality({j \in DOMAIN store : ~store[j].trashed
                          /\ ~store[j].archived /\ escape(store[j].title) = k})],
         archived |-> [k \in {escape(store[i].title) : i \in
                        {j \in DOMAIN store : ~store[j].trashed /\ store[j].archived}} |->
                      Cardinality({j \in DOMAIN store : ~store[j].trashed
                          /\ store[j].archived /\ escape(store[j].title) = k})]]

\* updated_notes: the notes whose timestamp the answer changed
apply_updated(store, resp) ==
    {i \in DOMAIN apply_store(store, resp) :
        i \in DOMAIN resp \/ store[i].dirty}

Orders(S) == {o \in [1..Cardinality(S) -> S] : \A i, j \in DOMAIN o : i # j => o[i] # o[j]}

(***************************************************************************)
(* The host (plugin.py) and the environment                                *)
(***************************************************************************)
NoPending == [has |-> FALSE, nfs |-> <<>>]

\* What an earlier session left on disk for the notes of store: every
\* materializable note's file, at its path, holding its serialization
Mirror(store) ==
    LET c == apply_counts(store)
        ids == {i \in DOMAIN store : ~is_ephemeral(bufname(i, store[i], c))}
    IN  [p \in {bufname(i, store[i], c) : i \in ids} |->
            LET i == CHOOSE j \in ids : bufname(j, store[j], c) = p
            IN  serialize(i, store[i])]

\* A file an earlier session's soft-delete may have left behind
Leftovers ==
    {EmptyMap,
     [p \in {[dir |-> "sync", name |-> "A", qual |-> NoId, local |-> TRUE]} |->
        [title |-> "A", id |-> 1, text |-> "y"]]}

\* The stores an earlier session may have ended with
PrevStores ==
    UNION {[S -> {Version("A", "x", FALSE, FALSE)}] : S \in SUBSET RemoteIds}

\* The plugin is constructed over the disk and the state file of an earlier
\* session (the state file is missing on a first run or after a logout)
Init ==
    /\ state = "Uninitialized"
    /\ syncArchived \in BOOLEAN
    /\ labels = {}
    /\ modal = NoModal
    /\ notes = EmptyMap
    /\ counts = NoCounts
    /\ \E prev \in PrevStores, has \in BOOLEAN, left \in Leftovers :
        /\ cache = IF has THEN [has |-> TRUE, notes |-> prev] ELSE NoCache
        /\ disk = Mirror(prev) @@ left
    /\ protected = {}
    /\ updated = {}
    /\ pending = NoPending
    /\ renames = <<>>
    /\ pc = "idle"
    /\ lastOp = "init"
    /\ log = <<>>
    /\ syncs = 0
    /\ edits = 0
    /\ HostIdle

\* The user edits the body of a note file while the plugin is not running
UserEditFile ==
    /\ state = "Uninitialized"
    /\ edits < MaxEdits
    /\ edits' = edits + 1
    /\ \E p \in _find_files(disk), x \in Texts :
        /\ disk[p].text # x
        /\ disk' = [disk EXCEPT ![p].text = x]
    /\ lastOp' = "user_edit"
    /\ UNCHANGED <<state, syncArchived, labels, modal, notes, counts, cache, protected, updated,
                   pending, renames, pc, log, syncs>>
    /\ UNCHANGED hostVars

\* The user writes a new file, without an id line, into the sync directory
UserNewFile ==
    /\ state = "Uninitialized"
    /\ edits < MaxEdits
    /\ edits' = edits + 1
    /\ \E t \in Titles :
        LET p == [dir |-> "sync", name |-> escape(t), qual |-> NoId, local |-> FALSE]
        IN  /\ p \notin DOMAIN disk
            /\ disk' = SetKey(disk, p, [title |-> t, id |-> NoId, text |-> "x"])
    /\ lastOp' = "user_new"
    /\ UNCHANGED <<state, syncArchived, labels, modal, notes, counts, cache, protected, updated,
                   pending, renames, pc, log, syncs>>
    /\ UNCHANGED hostVars

\* The user removes a note file while the plugin is not running
UserDeleteFile ==
    /\ state = "Uninitialized"
    /\ edits < MaxEdits
    /\ edits' = edits + 1
    /\ \E p \in _find_files(disk) : disk' = Remove(disk, p)
    /\ lastOp' = "user_delete"
    /\ UNCHANGED <<state, syncArchived, labels, modal, notes, counts, cache, protected, updated,
                   pending, renames, pc, log, syncs>>
    /\ UNCHANGED hostVars

\* GkeepPlugin._resume: load the cached state, FileSync.start, InitialSync
Start ==
    /\ state = "Uninitialized"
    /\ pc = "idle"
    /\ notes' = start_store(cache.has, cache.notes, notes, disk)
    /\ protected' = protected \cup start_protected(cache.has, cache.notes, disk)
    /\ state' = "InitialSync"
    /\ pc' = "syncing"
    /\ lastOp' = "start"
    /\ UNCHANGED <<syncArchived, labels, modal, counts, cache, disk, updated, pending, renames, log,
                   syncs, edits>>
    /\ UNCHANGED hostVars

\* GkeepPlugin._finish_initial_sync up to the call of finish_startup
ApplyInitialUpdates ==
    /\ state = "InitialSync"
    /\ pc = "syncing"
    /\ \E resp \in Responses(notes, 2) :
        /\ notes' = apply_store(notes, resp)
        /\ updated' = apply_updated(notes, resp)
    /\ counts' = apply_counts(notes')
    /\ cache' = [has |-> TRUE, notes |-> notes']
    /\ pc' = "fetched"
    /\ lastOp' = "apply_updates"
    /\ UNCHANGED <<state, syncArchived, labels, modal, disk, protected, pending, renames, log,
                   syncs, edits>>
    /\ UNCHANGED hostVars

\* FileSync.finish_startup and the rest of _finish_initial_sync.  When it
\* raises, _sync_notes reports the error and event_handle_sync_error
\* resets the plugin (_reset_all_state).
FinishStartup ==
    /\ state = "InitialSync"
    /\ pc = "fetched"
    /\ \E order \in Orders(DOMAIN notes) :
        \E r \in {finish_startup(notes, disk, counts, protected, order, updated)} :
            /\ ~r.full
            /\ disk' = r.disk
            /\ log' = r.log
            /\ IF r.err
               THEN /\ state' = "Uninitialized"
                    /\ notes' = EmptyMap
                    /\ counts' = [counts EXCEPT !.plain = EmptyMap]
                    /\ cache' = NoCache
                    /\ renames' = <<>>
                    /\ pc' = "failed"
                    /\ lastOp' = "finish_startup_failed"
                    /\ UNCHANGED protected
               ELSE /\ state' = "Running"
                    /\ notes' = r.notes
                    /\ renames' = r.renames
                    /\ protected' = {}
                    /\ pc' = "idle"
                    /\ lastOp' = "finish_startup"
                    /\ UNCHANGED <<counts, cache>>
    /\ UNCHANGED <<syncArchived, labels, modal, updated, pending, syncs, edits>>
    /\ UNCHANGED hostVars

\* The file operations _write_files performs
FileOps == {"write", "softdelete", "unlink"}

\* One file operation of a pass, done again on the record w
Redo(w, e) ==
    IF e.ev = "write" THEN _write_file(w, e.path, e.lines, FALSE)
    ELSE IF e.ev = "softdelete" THEN _soft_delete(w, e.path)
    ELSE unlink(w, e.path)

RECURSIVE RedoAll(_, _)
RedoAll(w, events) ==
    IF events = <<>> THEN w ELSE RedoAll(Redo(w, Head(events)), Tail(events))

\* A pass that undoes what it did when an operation raises
interrupted_rolled_back(d, events, k) == d

\* The files after a pass whose operation k + 1 raised an OSError: neither
\* _write_files nor finish_startup catches it, so the k operations done stay
interrupted(d, events, k) ==
    RedoAll([disk |-> d, log |-> <<>>, err |-> FALSE], SubSeq(events, 1, k)).disk

\* _finish_initial_sync when a file operation of _write_files raises
\* (permission, disk full): operation k + 1 of the pass fails, the exception
\* leaves finish_startup and _finish_initial_sync, config.state = Running
\* is not reached, and _sync_notes calls the error callback
\* (event_handle_sync_error, _reset_all_state) and raises again.
FinishStartupFails ==
    /\ state = "InitialSync"
    /\ pc = "fetched"
    /\ \E order \in Orders(DOMAIN notes) :
        \E r \in {finish_startup(notes, disk, counts, protected, order, updated)} :
            /\ ~r.full
            /\ ~r.err
            /\ \E k \in 0..(Len(r.log) - 1) :
                /\ \A j \in 1..(k + 1) : r.log[j].ev \in FileOps
                /\ disk' = interrupted(disk, r.log, k)
                /\ log' = Append(SubSeq(r.log, 1, k),
                                 Event("oserror", r.log[k + 1].path, r.log[k + 1].id))
    /\ state' = "Uninitialized"
    /\ notes' = EmptyMap
    /\ counts' = [counts EXCEPT !.plain = EmptyMap]
    /\ cache' = NoCache
    /\ renames' = <<>>
    /\ pc' = "failed"
    /\ lastOp' = "finish_startup_io_failed"
    /\ UNCHANGED <<syncArchived, labels, modal, protected, updated, pending, syncs, edits>>
    /\ UNCHANGED hostVars

\* os.rename / os.unlink of event_rename_files, for files no buffer shows
RECURSIVE rename_files(_, _)
rename_files(d, files) ==
    IF files = <<>> THEN d
    ELSE LET src == Head(files)[1]
             dst == Head(files)[2]
             d1 == IF src \notin DOMAIN d THEN d
                   ELSE IF is_ephemeral(dst) THEN Remove(d, src)
                   ELSE [p \in (DOMAIN d \ {src}) \cup {dst} |->
                            IF p = dst THEN d[src] ELSE d[p]]
         IN  rename_files(d1, Tail(files))

\* GkeepPlugin.event_rename_files, dispatched with the rename map
EventRenameFiles ==
    /\ state = "Running"
    /\ renames # <<>>
    /\ disk' = rename_files(disk, renames)
    /\ renames' = <<>>
    /\ lastOp' = "rename_files"
    /\ UNCHANGED <<state, syncArchived, labels, modal, notes, counts, cache, protected, updated,
                   pending, pc, log, syncs, edits>>
    /\ UNCHANGED hostVars

\* GkeepPlugin.event_finish_sync: apply the answer, save the state, build the
\* NoteFile snapshots of the updated notes and hand them to _write_files
EventFinishSync ==
    /\ state = "Running"
    /\ ~pending.has
    /\ renames = <<>>
    /\ syncs < MaxSyncs
    /\ syncs' = syncs + 1
    /\ \E resp \in Responses(notes, 1) :
        /\ notes' = apply_store(notes, resp)
        /\ updated' = apply_updated(notes, resp)
    /\ counts' = apply_counts(notes')
    /\ cache' = [has |-> TRUE, notes |-> notes']
    /\ \E order \in Orders(updated') :
        pending' = [has |-> TRUE,
                    nfs |-> [i \in DOMAIN order |->
                               from_note(order[i], notes'[order[i]], counts')]]
    /\ lastOp' = "finish_sync"
    /\ UNCHANGED <<state, syncArchived, labels, modal, disk, protected, renames, pc, log, edits>>
    /\ UNCHANGED hostVars

\* write_files as it would be if it rendered the notes when it runs
write_files_live(d, updated_notes) ==
    _write_files(d, {},
                 [k \in DOMAIN updated_notes |->
                    IF updated_notes[k].id \in DOMAIN notes
                    THEN from_note(updated_notes[k].id, notes[updated_notes[k].id], counts)
                    ELSE updated_notes[k]],
                 {updated_notes[i].id : i \in DOMAIN updated_notes}, FALSE)

\* FileSync.write_files, in the background thread of GkeepPlugin._write_files
write_files(d, updated_notes) ==
    _write_files(d, {}, updated_notes,
                 {updated_notes[i].id : i \in DOMAIN updated_notes}, FALSE)

WriteFiles ==
    /\ pending.has
    /\ state = "Running"
    /\ \E w \in {write_files(disk, pending.nfs)} :
           /\ disk' = w.disk
           /\ renames' = w.renames
           /\ log' = w.log
    /\ pending' = NoPending
    /\ lastOp' = "write_files"
    /\ UNCHANGED <<state, syncArchived, labels, modal, notes, counts, cache, protected, updated, pc,
                   syncs, edits>>
    /\ UNCHANGED hostVars

Next ==
    \/ UserEditFile
    \/ UserNewFile
    \/ UserDeleteFile
    \/ Start
    \/ ApplyInitialUpdates
    \/ FinishStartup
    \/ FinishStartupFails
    \/ EventRenameFiles
    \/ EventFinishSync
    \/ WriteFiles

Spec == Init /\ [][Next]_vars

(***************************************************************************)
(* _make_backup on its own: the store holds one note, freeform or          *)
(* checklist; a backup of it is made and added as finish_startup does, and *)
(* the backup is then changed through its own objects.                     *)
(***************************************************************************)
MaxItems == 3
ItemTexts == {"a", "b"}

\* The checklists of n items, in the order of note.items: sorts descend, and
\* an indented item is under the nearest item before it that is not indented
LastParent(items) ==
    {items[j].ref : j \in {i \in DOMAIN items :
        /\ items[i].parent = NoRef
        /\ \A m \in DOMAIN items : m > i => items[m].parent # NoRef}}

WithItem(items, n) ==
    {Append(items,
            [ref |-> [note |-> 1, k |-> n], text |-> x, checked |-> c,
             sort |-> (MaxItems + 1 - n) * 10, parent |-> par]) :
        x \in ItemTexts, c \in BOOLEAN, par \in {NoRef} \cup LastParent(items)}

RECURSIVE Checklists(_)
Checklists(n) ==
    IF n = 0 THEN {<<>>}
    ELSE UNION {WithItem(items, n) : items \in Checklists(n - 1)}

BackupInputs ==
    {Version(t, x, FALSE, FALSE) : t \in Titles, x \in Texts}
      \cup {[Version("A", "", FALSE, a) EXCEPT !.kind = "list", !.items = items] :
                items \in UNION {Checklists(n) : n \in 0..MaxItems}, a \in BOOLEAN}

BackupInit ==
    /\ state = "InitialSync"
    /\ syncArchived = FALSE
    /\ labels = {}
    /\ modal = NoModal
    /\ notes \in [{1} -> BackupInputs]
    /\ counts = apply_counts(notes)
    /\ cache = [has |-> TRUE, notes |-> notes]
    /\ disk = EmptyMap
    /\ protected = {}
    /\ updated = {}
    /\ pending = NoPending
    /\ renames = <<>>
    /\ pc = "fetched"
    /\ lastOp = "init"
    /\ log = <<>>
    /\ syncs = 0
    /\ edits = 0
    /\ HostIdle

\* backup = _make_backup(note); self._api.add(backup)
MakeBackup ==
    /\ lastOp = "init"
    /\ \E id \in DOMAIN notes, bid \in {FreshId(notes, disk)} :
        notes' = SetKey(notes, bid, _make_backup(notes[id], bid))
    /\ lastOp' = "make_backup"
    /\ UNCHANGED <<state, syncArchived, labels, modal, counts, cache, disk, protected, updated,
                   pending, renames, pc, log, syncs, edits>>
    /\ UNCHANGED hostVars

\* An assignment through the item object ref reaches every note that holds
\* that object
SetItem(store, ref, x, c) ==
    [i \in DOMAIN store |->
        [store[i] EXCEPT !.items =
            [k \in DOMAIN @ |->
                IF @[k].ref = ref THEN [@[k] EXCEPT !.text = x, !.checked = c]
                ELSE @[k]]]]

\* The backup is changed: its text, or one of its items
EditBackup ==
    /\ lastOp = "make_backup"
    /\ \E b \in DOMAIN notes \ {1} :
        \/ /\ notes[b].kind = "note"
           /\ notes' = [notes EXCEPT ![b].text = "FOO"]
        \/ /\ notes[b].kind = "list"
           /\ \E k \in DOMAIN notes[b].items, c \in BOOLEAN :
                notes' = SetItem(notes, notes[b].items[k].ref, "FOO", c)
    /\ lastOp' = "edit_backup"
    /\ UNCHANGED <<state, syncArchived, labels, modal, counts, cache, disk, protected, updated,
                   pending, renames, pc, log, syncs, edits>>
    /\ UNCHANGED hostVars

BackupNext ==
    \/ MakeBackup
    \/ EditBackup

BackupSpec == BackupInit /\ [][BackupNext]_vars

(***************************************************************************)
(* write_files on its own.  The plugin is running; the disk mirrors the    *)
(* store as it was before a sync, event_finish_sync has applied the answer *)
(* and has built the NoteFile snapshots of the updated notes.  The         *)
(* foreground may save a buffer into a note while the background thread    *)
(* has not yet written, and the same list may be written twice.            *)
(***************************************************************************)
\* The stores the server's versions make
SyncedStores ==
    UNION {{s \in [S -> UNION {VersionsOf(i) : i \in RemoteIds}] :
                \A i \in S : s[i] \in VersionsOf(i)} : S \in SUBSET RemoteIds}

WriteInit ==
    /\ state = "Running"
    /\ syncArchived \in BOOLEAN
    /\ labels = {}
    /\ modal = NoModal
    /\ \E prev \in SyncedStores :
        /\ disk = Mirror(prev)
        /\ notes \in SyncedStores
        /\ updated = {i \in DOMAIN notes : i \notin DOMAIN prev \/ prev[i] # notes[i]}
    /\ counts = apply_counts(notes)
    /\ cache = [has |-> TRUE, notes |-> notes]
    /\ \E order \in Orders(updated) :
        pending = [has |-> TRUE,
                   nfs |-> [i \in DOMAIN order |->
                              from_note(order[i], notes[order[i]], counts)]]
    /\ protected = {}
    /\ renames = <<>>
    /\ pc = "idle"
    /\ lastOp = "finish_sync"
    /\ log = <<>>
    /\ syncs = 0
    /\ edits = 0
    /\ HostIdle

\* GkeepPlugin._save_note: a gkeep:// buffer is saved into its note while the
\* background thread has the snapshots
SaveNote ==
    /\ state = "Running"
    /\ pending.has
    /\ lastOp = "finish_sync"
    /\ edits < MaxEdits
    /\ edits' = edits + 1
    /\ \E i \in DOMAIN notes, t \in Titles, x \in Texts :
        /\ notes' = [notes EXCEPT ![i] = parse([title |-> t, id |-> i, text |-> x], @)]
        /\ notes' # notes
    /\ lastOp' = "save_note"
    /\ UNCHANGED <<state, syncArchived, labels, modal, counts, cache, disk, protected, updated,
                   pending, renames, pc, log, syncs>>
    /\ UNCHANGED hostVars

\* FileSync.write_files, called with the snapshots
WriteFilesOnce ==
    /\ state = "Running"
    /\ pending.has
    /\ lastOp \in {"finish_sync", "save_note"}
    /\ \E w \in {write_files(disk, pending.nfs)} :
           /\ disk' = w.disk
           /\ renames' = w.renames
           /\ log' = w.log
    /\ lastOp' = "write_files"
    /\ UNCHANGED <<state, syncArchived, labels, modal, notes, counts, cache, protected, updated,
                   pending, pc, syncs, edits>>
    /\ UNCHANGED hostVars

\* FileSync.write_files, called again with the same snapshots and nothing
\* in between
WriteFilesAgain ==
    /\ state = "Running"
    /\ pending.has
    /\ lastOp = "write_files"
    /\ \E w \in {write_files(disk, pending.nfs)} :
           /\ disk' = w.disk
           /\ renames' = w.renames
           /\ log' = w.log
    /\ lastOp' = "write_files_again"
    /\ UNCHANGED <<state, syncArchived, labels, modal, notes, counts, cache, protected, updated,
                   pending, pc, syncs, edits>>
    /\ UNCHANGED hostVars

WriteNext ==
    \/ SaveNote
    \/ WriteFilesOnce
    \/ WriteFilesAgain

WriteSpec == WriteInit /\ [][WriteNext]_vars

(***************************************************************************)
(* The codec on its own.  The plugin is running and holds one note; the    *)
(* file of the note holds the note's serialization, or the lines the user  *)
(* has given a checklist; the user saves the file and _maybe_sync parses   *)
(* it into the note.  cache keeps the note as it was.                      *)
(***************************************************************************)
MaxLines == 2
MaxListItems == 2
SortRaise == 15
CodecTitles == {"A", " A"}

ListNote(title, items) ==
    [Version(title, "", FALSE, FALSE) EXCEPT !.kind = "list", !.items = items]

\* The checklists a sync may deliver: an item's text may begin with
\* whitespace, and an indented item's sort may lie above its parent's
WhiteText(items) ==
    {[items EXCEPT ![k].text = " a"] : k \in DOMAIN items}

RaisedSort(items) ==
    {s \in {[items EXCEPT ![k].sort = @ + SortRaise] :
                k \in {j \in DOMAIN items : items[j].parent # NoRef}} :
        sorted_items(s, s) = s}

CodecLists ==
    UNION {{items} \cup WhiteText(items) \cup RaisedSort(items) :
              items \in UNION {Checklists(n) : n \in 0..MaxItems}}

CodecInputs ==
    {Version(t, x, FALSE, FALSE) : t \in CodecTitles, x \in Texts}
      \cup {ListNote(t, items) : t \in CodecTitles, items \in CodecLists}

\* The lines a user may give a checklist file: items of the texts the
\* checklists have, a line that is not an item, an item of a text no
\* checklist has, and a blank line
LineOptions ==
    {[kind |-> "item", indented |-> i, box |-> b, text |-> x] :
        i \in BOOLEAN, b \in {" ", "x"}, x \in ItemTexts}
      \cup {[kind |-> "raw", indented |-> FALSE, box |-> " ", text |-> "a"]}
      \cup {[kind |-> "item", indented |-> FALSE, box |-> " ", text |-> "c"]}
      \cup {BlankLine}

Bodies == UNION {[1..n -> LineOptions] : n \in 0..MaxLines}

\* The checklists the user edits: the items of one of the two texts may be
\* checked
ReconcileInputs ==
    {ListNote("A", items) :
        items \in {c \in UNION {Checklists(n) : n \in 0..MaxListItems} :
                      \A j \in DOMAIN c : c[j].checked => c[j].text = "a"}}

\* The file of the note with the body the buffer has
WithBody(d, lines) == [p \in DOMAIN d |-> [d[p] EXCEPT !.text = lines]]

CodecInit ==
    /\ state = "Running"
    /\ syncArchived = FALSE
    /\ labels = {}
    /\ modal = NoModal
    /\ notes \in [{1} -> CodecInputs]
    /\ disk = Mirror(notes)
    /\ counts = apply_counts(notes)
    /\ cache = [has |-> TRUE, notes |-> notes]
    /\ protected = {}
    /\ updated = {}
    /\ pending = NoPending
    /\ renames = <<>>
    /\ pc = "idle"
    /\ lastOp = "init"
    /\ log = <<>>
    /\ syncs = 0
    /\ edits = 0
    /\ HostIdle

\* What the buffer of the file may hold when it is saved: what the file
\* held, or the lines the user has given a checklist
Buffers(file, n) ==
    {file.text} \cup (IF n \in ReconcileInputs THEN Bodies ELSE {})

\* The buffer of a note's file is saved: the file takes the buffer's lines,
\* and GkeepPlugin._maybe_sync parses the buffer into the note the store
\* holds: parser.parse(self._api, self._config, bufnr, note)
MaybeSync ==
    /\ state = "Running"
    /\ lastOp = "init"
    /\ \E p \in _find_files(disk) :
        /\ disk[p].id \in DOMAIN notes
        /\ \E lines \in Buffers(disk[p], notes[disk[p].id]) :
            /\ disk' = WithBody(disk, lines)
            /\ notes' = [notes EXCEPT ![disk[p].id] = parse(disk'[p], @)]
    /\ lastOp' = "maybe_sync"
    /\ UNCHANGED <<state, syncArchived, labels, modal, counts, cache, protected, updated,
                   pending, renames, pc, log, syncs, edits>>
    /\ UNCHANGED hostVars

CodecNext ==
    \/ MaybeSync

CodecSpec == CodecInit /\ [][CodecNext]_vars

(***************************************************************************)
(* The plugin's life cycle: the host's loop runs the commands and the      *)
(* dispatched events one at a time, thread_util.background runs _resume,   *)
(* _sync_notes and _write_files in threads of their own, one lock for each *)
(* operation, and a thread may be preempted between any two statements.    *)
(***************************************************************************)
MaxThreads == 6

SyncState == {"Uninitialized", "InitialSync", "Running", "ShuttingDown"}

\* a thread that returned or raised
Done == [op |-> "-", kind |-> "-", pc |-> "done"]

Live(t) == t \in DOMAIN threads /\ threads[t] # Done

At(t, op, where) ==
    /\ t \in DOMAIN threads
    /\ threads[t].op = op
    /\ threads[t].pc = where

Goto(t, where) == [threads EXCEPT ![t].pc = where]

\* thread_util.background without the lock of wrap_lock
wrap_lock_free(held, t) == held = held

\* wrap_lock: "with lock" lets a thread in when no thread holds the lock
wrap_lock(held, t) == held = 0

\* util.dispatch: vim.async_call unless the plugin is shutting down
dispatch(q, st, event) == IF st # "ShuttingDown" THEN Append(q, event) ELSE q

\* the step that moved config.state, and the state it left
Moved(op) == lastOp' = [op |-> op, from |-> state]

dataVars == <<syncArchived, labels, modal, notes, counts, cache, disk, protected, updated,
              pending, renames, pc, syncs, edits>>

HostInit ==
    /\ state = "Uninitialized"
    /\ syncArchived = FALSE
    /\ labels = {}
    /\ modal = NoModal
    /\ notes = EmptyMap
    /\ counts = NoCounts
    /\ cache = NoCache
    /\ disk = EmptyMap
    /\ protected = {}
    /\ updated = {}
    /\ pending = NoPending
    /\ renames = <<>>
    /\ pc = "idle"
    /\ lastOp = [op |-> "init", from |-> "Uninitialized"]
    /\ log = <<>>
    /\ syncs = 0
    /\ edits = 0
    /\ HostIdle

\* background: threading.Thread(target=wrap_lock(func)).start()
background(op, kind) ==
    /\ Len(threads) < MaxThreads
    /\ threads' = Append(threads, [op |-> op, kind |-> kind, pc |-> "spawned"])

\* the thread leaves "with lock", by return or by exception
Leave(t) ==
    /\ threads' = [threads EXCEPT ![t] = Done]
    /\ locks' = [locks EXCEPT ![threads[t].op] = 0]

\* an assert of fssync.py failed: wrap_log_exception logs the exception
Raise(what) == log' = IF \E k \in DOMAIN log : log[k] = what THEN log
                      ELSE Append(log, what)

\* a reset that would start the initial sync over
_reset_all_state_initial(op) ==
    /\ state' = "InitialSync"
    /\ Moved(op)

\* an error handler that would leave the plugin Running
_reset_all_state_keep(op) ==
    /\ state' = "Running"
    /\ Moved(op)

\* GkeepPlugin._reset_all_state
_reset_all_state(op) ==
    /\ state' = "Uninitialized"
    /\ Moved(op)

\* GkeepPlugin.on_shutdown
on_shutdown ==
    /\ state # "ShuttingDown"
    /\ state' = "ShuttingDown"
    /\ Moved("on_shutdown")
    /\ UNCHANGED <<dataVars, log, hostVars>>

\* GkeepPlugin.preload, called by the lua side when the plugin loads
preload ==
    /\ state # "ShuttingDown"
    /\ threads = <<>>
    /\ background("_resume", "-")
    /\ UNCHANGED <<state, dataVars, lastOp, log, locks, queue>>

\* GkeepPlugin.cmd_login with a stored token or a password that logs in
cmd_login ==
    /\ state \in {"Uninitialized", "Running"}
    /\ IF state = "Running" THEN _reset_all_state("cmd_login")
       ELSE UNCHANGED <<state, lastOp>>
    /\ background("_resume", "-")
    /\ UNCHANGED <<dataVars, log, locks, queue>>

\* GkeepPlugin.cmd_logout
cmd_logout ==
    /\ state = "Running"
    /\ _reset_all_state("cmd_logout")
    /\ UNCHANGED <<dataVars, log, hostVars>>

\* GkeepPlugin.cmd_sync: event_sync(force=True)
cmd_sync ==
    /\ state = "Running"
    /\ background("_sync_notes", "sync")
    /\ UNCHANGED <<state, dataVars, lastOp, log, locks, queue>>

\* GkeepPlugin.event_sync, dispatched after the initial sync
event_sync ==
    /\ state # "ShuttingDown"
    /\ queue # <<>> /\ Head(queue) = "sync"
    /\ queue' = Tail(queue)
    /\ \E dirty \in BOOLEAN :
        IF state = "Running" /\ dirty THEN background("_sync_notes", "sync")
        ELSE UNCHANGED threads
    /\ UNCHANGED <<state, dataVars, lastOp, log, locks>>

\* GkeepPlugin.event_handle_sync_error
event_handle_sync_error ==
    /\ state # "ShuttingDown"
    /\ queue # <<>> /\ Head(queue) = "handle_sync_error"
    /\ queue' = Tail(queue)
    /\ _reset_all_state("event_handle_sync_error")
    /\ UNCHANGED <<dataVars, log, threads, locks>>

\* GkeepPlugin.event_finish_sync
event_finish_sync ==
    /\ state # "ShuttingDown"
    /\ queue # <<>> /\ Head(queue) = "finish_sync"
    /\ queue' = Tail(queue)
    /\ IF state = "Running" THEN background("_write_files", "-")
       ELSE UNCHANGED threads
    /\ UNCHANGED <<state, dataVars, lastOp, log, locks>>

\* wrap_lock: the thread enters "with lock"
Enter(t) ==
    /\ Live(t)
    /\ threads[t].pc = "spawned"
    /\ wrap_lock(locks[threads[t].op], t)
    /\ locks' = [locks EXCEPT ![threads[t].op] = t]
    /\ threads' = Goto(t, "entered")
    /\ UNCHANGED <<state, dataVars, lastOp, log, queue>>

\* _resume: require_state(Uninitialized), then api.resume
_resume_check(t) ==
    /\ At(t, "_resume", "entered")
    /\ \E logged_in \in BOOLEAN :
        IF state = "Uninitialized" /\ logged_in
        THEN threads' = Goto(t, "start") /\ UNCHANGED locks
        ELSE Leave(t)
    /\ UNCHANGED <<state, dataVars, lastOp, log, queue>>

\* _resume: self._sync.start(state), the assert of FileSync.start
_resume_start(t) ==
    /\ At(t, "_resume", "start")
    /\ IF state = "Uninitialized"
       THEN threads' = Goto(t, "set_state") /\ UNCHANGED <<locks, log>>
       ELSE Leave(t) /\ Raise("start")
    /\ UNCHANGED <<state, dataVars, lastOp, queue>>

\* _resume: config.state = InitialSync
_resume_set_state(t) ==
    /\ At(t, "_resume", "set_state")
    /\ state' = "InitialSync"
    /\ Moved("_resume")
    /\ threads' = Goto(t, "sync")
    /\ UNCHANGED <<dataVars, log, locks, queue>>

\* _resume: api.sync(_finish_initial_sync, ...), and the return
_resume_sync(t) ==
    /\ At(t, "_resume", "sync")
    /\ Len(threads) < MaxThreads
    /\ threads' = Append([threads EXCEPT ![t] = Done],
                         [op |-> "_sync_notes", kind |-> "initial", pc |-> "spawned"])
    /\ locks' = [locks EXCEPT !["_resume"] = 0]
    /\ UNCHANGED <<state, dataVars, lastOp, log, queue>>

\* KeepApi._sync_notes: the exchange with the server, then the callback of
\* a sync cycle or the error callback
_sync_notes(t) ==
    /\ At(t, "_sync_notes", "entered")
    /\ \E ok \in BOOLEAN :
        IF ok /\ threads[t].kind = "initial"
        THEN /\ threads' = Goto(t, "finish_startup")
             /\ UNCHANGED <<locks, queue>>
        ELSE /\ Leave(t)
             /\ queue' = dispatch(queue, state,
                                  IF ok THEN "finish_sync" ELSE "handle_sync_error")
    /\ UNCHANGED <<state, dataVars, lastOp, log>>

\* _finish_initial_sync up to the assert of FileSync.finish_startup; the
\* AssertionError reaches the except clause of _sync_notes
_finish_initial_sync(t) ==
    /\ At(t, "_sync_notes", "finish_startup")
    /\ IF state = "InitialSync"
       THEN threads' = Goto(t, "set_state") /\ UNCHANGED <<locks, log, queue>>
       ELSE /\ Leave(t)
            /\ Raise("finish_startup")
            /\ queue' = dispatch(queue, state, "handle_sync_error")
    /\ UNCHANGED <<state, dataVars, lastOp>>

\* _finish_initial_sync: config.state = Running, and the dispatches
_finish_initial_sync_running(t) ==
    /\ At(t, "_sync_notes", "set_state")
    /\ state' = "Running"
    /\ Moved("_finish_initial_sync")
    /\ Leave(t)
    /\ queue' = dispatch(queue, state', "sync")
    /\ UNCHANGED <<dataVars, log>>

\* GkeepPlugin._write_files: the assert of FileSync.write_files
_write_files_thread(t) ==
    /\ At(t, "_write_files", "entered")
    /\ Leave(t)
    /\ IF state = "Running" THEN UNCHANGED log ELSE Raise("write_files")
    /\ UNCHANGED <<state, dataVars, lastOp, queue>>

HostNext ==
    \/ on_shutdown
    \/ preload
    \/ cmd_login
    \/ cmd_logout
    \/ cmd_sync
    \/ event_sync
    \/ event_handle_sync_error
    \/ event_finish_sync
    \/ \E t \in 1..MaxThreads : Enter(t)
    \/ \E t \in 1..MaxThreads : _resume_check(t)
    \/ \E t \in 1..MaxThreads : _resume_start(t)
    \/ \E t \in 1..MaxThreads : _resume_set_state(t)
    \/ \E t \in 1..MaxThreads : _resume_sync(t)
    \/ \E t \in 1..MaxThreads : _sync_notes(t)
    \/ \E t \in 1..MaxThreads : _finish_initial_sync(t)
    \/ \E t \in 1..MaxThreads : _finish_initial_sync_running(t)
    \/ \E t \in 1..MaxThreads : _write_files_thread(t)

HostSpec == HostInit /\ [][HostNext]_vars

(***************************************************************************)
(* thread_util.background alone: callers invoke one decorated operation    *)
(* with argument tuples drawn from ArgTuples; every call starts a thread that   *)
(* runs wrap_lock's wrapper around the operation.  In this specification   *)
(* locks is the closure of wrap_lock: the lock's holder, max_waiting, and  *)
(* the two counters kept under countlock.                                  *)
(***************************************************************************)
MaxCalls == 3
MaxWaiting == 1

ArgTuples == {"a", "b"}

\* the closure of wrap_lock for a decorator with the given max_waiting
Closure(bounded, max_waiting) ==
    [lock |-> 0,
     bounded |-> bounded,
     max_waiting |-> max_waiting,
     run_count |-> [k \in ArgTuples |-> 0],
     wait_count |-> [k \in ArgTuples |-> 0]]

DispatchInit ==
    /\ state = "Running"
    /\ syncArchived = FALSE
    /\ labels = {}
    /\ modal = NoModal
    /\ notes = EmptyMap
    /\ counts = NoCounts
    /\ cache = NoCache
    /\ disk = EmptyMap
    /\ protected = {}
    /\ updated = {}
    /\ pending = NoPending
    /\ renames = <<>>
    /\ pc = "idle"
    /\ lastOp = "init"
    /\ log = <<>>
    /\ syncs = 0
    /\ edits = 0
    /\ threads = <<>>
    /\ queue = <<>>
    /\ \/ locks = Closure(FALSE, 0)
       \/ \E m \in 0..MaxWaiting : locks = Closure(TRUE, m)

restVars == <<state, dataVars, log, queue>>

\* a caller that would run the wrapper itself has to find the lock free
start_inline(c) == c.lock = 0

\* threading.Thread(target=target, ...).start() returns at once
start(c) == TRUE

\* background's w: the caller starts a thread for the call and returns
Call(key) ==
    /\ Len(threads) < MaxCalls
    /\ start(locks)
    /\ threads' = Append(threads, [op |-> "func", kind |-> key, pc |-> "spawned"])
    /\ lastOp' = "call"
    /\ UNCHANGED <<restVars, locks>>

\* a wrapper that lets every call wait for the lock
Dropped_never(c, key) == FALSE

\* a wrapper that counts one call too many before it drops
Dropped_one_late(c, key) ==
    IF c.max_waiting = 0
    THEN c.run_count[key] > 0
    ELSE c.wait_count[key] > c.max_waiting

\* wrap_lock, under countlock: is the call dropped
Dropped(c, key) ==
    IF c.max_waiting = 0
    THEN c.run_count[key] > 0 \/ c.wait_count[key] > 0
    ELSE c.wait_count[key] >= c.max_waiting

\* wrap_lock's w up to "with lock": the counters are read under countlock,
\* the call returns if it is dropped, and is counted as waiting otherwise
Arrive(t) ==
    /\ At(t, "func", "spawned")
    /\ \E key \in {threads[t].kind} :
        IF ~locks.bounded
        THEN /\ threads' = Goto(t, "waiting")
             /\ UNCHANGED locks
        ELSE IF Dropped(locks, key)
        THEN /\ threads' = Goto(t, "dropped")
             /\ UNCHANGED locks
        ELSE /\ threads' = Goto(t, "waiting")
             /\ locks' = [locks EXCEPT !.wait_count[key] = @ + 1]
    /\ lastOp' = "arrive"
    /\ UNCHANGED restVars

\* "with lock": the thread gets the lock when no thread holds it
Acquire(t) ==
    /\ At(t, "func", "waiting")
    /\ locks.lock = 0
    /\ locks' = [locks EXCEPT !.lock = t]
    /\ threads' = Goto(t, IF locks.bounded THEN "locked" ELSE "running")
    /\ lastOp' = "acquire"
    /\ UNCHANGED restVars

\* under countlock: run_count[args] += 1, wait_count[args] -= 1
Tally(t) ==
    /\ At(t, "func", "locked")
    /\ \E key \in {threads[t].kind} :
        locks' = [locks EXCEPT !.run_count[key] = @ + 1,
                               !.wait_count[key] = @ - 1]
    /\ threads' = Goto(t, "running")
    /\ lastOp' = "count"
    /\ UNCHANGED restVars

\* func(*args): the operation returns or raises
Body(t) ==
    /\ At(t, "func", "running")
    /\ \E ok \in BOOLEAN :
        threads' = Goto(t, IF ok THEN "returned" ELSE "raised")
    /\ lastOp' = "body"
    /\ UNCHANGED <<restVars, locks>>

\* a wrapper that ends without leaving "with lock"
Finally_keeps_lock(t) ==
    /\ t \in DOMAIN threads
    /\ threads[t].op = "func"
    /\ threads[t].pc \in {"returned", "raised"}
    /\ \E key \in {threads[t].kind} :
        locks' = [locks EXCEPT !.run_count[key] =
                                   IF locks.bounded THEN @ - 1 ELSE @]
    /\ threads' = Goto(t, IF threads[t].pc = "returned" THEN "done" ELSE "failed")
    /\ lastOp' = "finally"
    /\ UNCHANGED restVars

\* a wrapper without try/finally: an operation that raises leaves the lock
\* held and its run counted
Finally_no_cleanup(t) ==
    /\ t \in DOMAIN threads
    /\ threads[t].op = "func"
    /\ threads[t].pc \in {"returned", "raised"}
    /\ \E key \in {threads[t].kind} :
        locks' = IF threads[t].pc = "raised" THEN locks
                 ELSE [locks EXCEPT !.lock = 0,
                                    !.run_count[key] =
                                        IF locks.bounded THEN @ - 1 ELSE @]
    /\ threads' = Goto(t, IF threads[t].pc = "returned" THEN "done" ELSE "failed")
    /\ lastOp' = "finally"
    /\ UNCHANGED restVars

\* the finally clause and the end of "with lock": run_count[args] -= 1
\* and the lock is released, whether the operation returned or raised
Finally(t) ==
    /\ t \in DOMAIN threads
    /\ threads[t].op = "func"
    /\ threads[t].pc \in {"returned", "raised"}
    /\ \E key \in {threads[t].kind} :
        locks' = [locks EXCEPT !.lock = 0,
                               !.run_count[key] =
                                   IF locks.bounded THEN @ - 1 ELSE @]
    /\ threads' = Goto(t, IF threads[t].pc = "returned" THEN "done" ELSE "failed")
    /\ lastOp' = "finally"
    /\ UNCHANGED restVars

DispatchNext ==
    \/ \E key \in ArgTuples : Call(key)
    \/ \E t \in 1..MaxCalls : Arrive(t)
    \/ \E t \in 1..MaxCalls : Acquire(t)
    \/ \E t \in 1..MaxCalls : Tally(t)
    \/ \E t \in 1..MaxCalls : Body(t)
    \/ \E t \in 1..MaxCalls : Finally(t)

DispatchSpec == DispatchInit /\ [][DispatchNext]_vars

\* The scheduler is fair: a thread that can take a step takes it, the
\* operation terminates, and a thread that waits for the lock gets it when
\* the lock is free again and again.
DispatchFairness ==
    \A t \in 1..MaxCalls :
        /\ WF_vars(Arrive(t))
        /\ SF_vars(Acquire(t))
        /\ WF_vars(Tally(t))
        /\ WF_vars(Body(t))
        /\ WF_vars(Finally(t))

DispatchFairSpec == DispatchSpec /\ DispatchFairness

(***************************************************************************)
(* The life cycle with the periodic sync.  _finish_initial_sync ends with  *)
(* sync_bg_thread(), a background operation with max_waiting = 0 that      *)
(* dispatches "sync" every ten seconds until it sees the plugin shutting   *)
(* down.  locks holds, besides the lock of each operation, the two         *)
(* counters wrap_lock keeps for sync_bg_thread's only argument tuple.      *)
(***************************************************************************)
MaxQueue == 1

PeriodicInit ==
    /\ state = "Uninitialized"
    /\ syncArchived = FALSE
    /\ labels = {}
    /\ modal = NoModal
    /\ notes = EmptyMap
    /\ counts = NoCounts
    /\ cache = NoCache
    /\ disk = EmptyMap
    /\ protected = {}
    /\ updated = {}
    /\ pending = NoPending
    /\ renames = <<>>
    /\ pc = "idle"
    /\ lastOp = [op |-> "init", from |-> "Uninitialized"]
    /\ log = <<>>
    /\ syncs = 0
    /\ edits = 0
    /\ threads = <<>>
    /\ locks = [op \in Operations \cup {"sync_bg_thread", "run_count", "wait_count"} |-> 0]
    /\ queue = <<>>

\* _finish_initial_sync from config.state = Running to its end: the
\* dispatches and the call of sync_bg_thread, which starts a thread
finish_initial_sync_end(t) ==
    /\ At(t, "_sync_notes", "set_state")
    /\ Len(threads) < MaxThreads
    /\ state' = "Running"
    /\ Moved("_finish_initial_sync")
    /\ threads' = Append([threads EXCEPT ![t] = Done],
                         [op |-> "sync_bg_thread", kind |-> "-", pc |-> "called"])
    /\ locks' = [locks EXCEPT !["_sync_notes"] = 0]
    /\ queue' = dispatch(queue, state', "sync")
    /\ UNCHANGED <<dataVars, log>>

\* a wrapper of sync_bg_thread without max_waiting: every call waits
sync_bg_thread_arrive_all(t) ==
    /\ At(t, "sync_bg_thread", "called")
    /\ threads' = Goto(t, "spawned")
    /\ locks' = [locks EXCEPT !["wait_count"] = @ + 1]
    /\ UNCHANGED <<state, dataVars, lastOp, log, queue>>

\* wrap_lock with max_waiting = 0, under countlock: the call returns when a
\* call of sync_bg_thread is running or waiting, and is counted otherwise
sync_bg_thread_arrive(t) ==
    /\ At(t, "sync_bg_thread", "called")
    /\ IF locks["run_count"] > 0 \/ locks["wait_count"] > 0
       THEN /\ threads' = [threads EXCEPT ![t] = Done]
            /\ UNCHANGED locks
       ELSE /\ threads' = Goto(t, "spawned")
            /\ locks' = [locks EXCEPT !["wait_count"] = @ + 1]
    /\ UNCHANGED <<state, dataVars, lastOp, log, queue>>

\* wrap_lock inside "with lock": run_count += 1, wait_count -= 1
sync_bg_thread_tally(t) ==
    /\ At(t, "sync_bg_thread", "entered")
    /\ locks' = [locks EXCEPT !["run_count"] = @ + 1, !["wait_count"] = @ - 1]
    /\ threads' = Goto(t, "check")
    /\ UNCHANGED <<state, dataVars, lastOp, log, queue>>

\* a loop that would stop as soon as the plugin is not Running
loop_while_running(st) == st = "Running"

\* sync_bg_thread: while self._config.state != State.ShuttingDown
loop_condition(st) == st # "ShuttingDown"

\* sync_bg_thread: the loop check; the thread returns when it fails
sync_bg_thread_check(t) ==
    /\ At(t, "sync_bg_thread", "check")
    /\ IF loop_condition(state)
       THEN /\ threads' = Goto(t, "sleep")
            /\ UNCHANGED locks
       ELSE /\ threads' = [threads EXCEPT ![t] = Done]
            /\ locks' = [locks EXCEPT !["sync_bg_thread"] = 0, !["run_count"] = @ - 1]
    /\ UNCHANGED <<state, dataVars, lastOp, log, queue>>

\* sync_bg_thread: time.sleep(10) is over, self.dispatch("sync")
sync_bg_thread_tick(t) ==
    /\ At(t, "sync_bg_thread", "sleep")
    /\ Len(queue) < MaxQueue
    /\ queue' = dispatch(queue, state, "sync")
    /\ threads' = Goto(t, "check")
    /\ UNCHANGED <<state, dataVars, lastOp, log, locks>>

PeriodicNext ==
    \/ on_shutdown
    \/ preload
    \/ cmd_login
    \/ cmd_logout
    \/ cmd_sync
    \/ event_sync
    \/ event_handle_sync_error
    \/ event_finish_sync
    \/ \E t \in 1..MaxThreads : Enter(t)
    \/ \E t \in 1..MaxThreads : _resume_check(t)
    \/ \E t \in 1..MaxThreads : _resume_start(t)
    \/ \E t \in 1..MaxThreads : _resume_set_state(t)
    \/ \E t \in 1..MaxThreads : _resume_sync(t)
    \/ \E t \in 1..MaxThreads : _sync_notes(t)
    \/ \E t \in 1..MaxThreads : _finish_initial_sync(t)
    \/ \E t \in 1..MaxThreads : finish_initial_sync_end(t)
    \/ \E t \in 1..MaxThreads : _write_files_thread(t)
    \/ \E t \in 1..MaxThreads : sync_bg_thread_arrive(t)
    \/ \E t \in 1..MaxThreads : sync_bg_thread_tally(t)
    \/ \E t \in 1..MaxThreads : sync_bg_thread_check(t)
    \/ \E t \in 1..MaxThreads : sync_bg_thread_tick(t)

PeriodicSpec == PeriodicInit /\ [][PeriodicNext]_vars

(***************************************************************************)
(* The parser on lines of any shape.  The plugin is running and holds one  *)
(* checklist; the buffer of its file is given any lines (header lines in   *)
(* any place or none, items, lines that are no items, blank lines) and is  *)
(* parsed into the note.  cache keeps the note as it was, and the log      *)
(* records the lines and the assertions that failed.                       *)
(***************************************************************************)
MaxFileLines == 3

Line(kind, indented, box, text) ==
    [kind |-> kind, indented |-> indented, box |-> box, text |-> text]

\* "id: <i>"
IdLine(i) == Line("id", FALSE, " ", IF i = 1 THEN "1" ELSE "2")

FileIds == {1, 2}

\* "# A", "id: 1", "id: 2", "labels:", a blank line, a checked item, an
\* indented item, and an indented line that is no item
RawLines ==
    {Line("title", FALSE, " ", " A"), Line("labels", FALSE, " ", "")}
      \cup {IdLine(i) : i \in FileIds}
      \cup {BlankLine}
      \cup {Line("item", FALSE, "x", "a"), Line("item", TRUE, " ", "b")}
      \cup {Line("raw", TRUE, " ", "b")}

RawFiles == UNION {[1..n -> RawLines] : n \in 0..MaxFileLines}

\* _parse_meta: the title of a first line "# ...", then the id of a line
\* "id: ..."; a title or an id that is None is "" or NoId here
_parse_meta(lines) ==
    LET t == IF lines # <<>> /\ lines[1].kind = "title" THEN 1 ELSE 0
        hasId == t < Len(lines) /\ lines[t + 1].kind = "id"
    IN  [title |-> IF t = 1 THEN strip(lines[1].text) ELSE "",
         id |-> IF hasId
                THEN CHOOSE i \in FileIds : IdLine(i) = lines[t + 1]
                ELSE NoId,
         i |-> IF hasId THEN t + 1 ELSE t]

\* _parse_header: after _parse_meta a line "labels:" and then one blank line
\* are passed over
_parse_header(lines) ==
    LET h == _parse_meta(lines)
        l == IF h.i < Len(lines) /\ lines[h.i + 1].kind = "labels"
             THEN h.i + 1 ELSE h.i
    IN  [h EXCEPT !.i = IF l < Len(lines) /\ lines[l + 1].kind = "blank"
                        THEN l + 1 ELSE l]

\* A header line below the header is a line as any other: it matches no
\* item and its text is the whole line
BodyLine(line) ==
    IF line.kind = "title" THEN Line("raw", FALSE, " ", "# A")
    ELSE IF line.kind = "id" THEN Line("raw", FALSE, " ", "id:")
    ELSE IF line.kind = "labels" THEN Line("raw", FALSE, " ", "labels:")
    ELSE line

\* The header and the body parse takes from the lines
ReadFile(lines) ==
    [title |-> _parse_header(lines).title,
     id |-> _parse_header(lines).id,
     text |-> [k \in 1..(Len(lines) - _parse_header(lines).i) |->
                  BodyLine(lines[_parse_header(lines).i + k])]]

\* A _sync_header that takes the id of the header whatever it is
_sync_header_id_always(file, id) == file.id

\* _sync_header: if note.id != header.id and header.id is not None
_sync_header_id(file, id) ==
    IF id # file.id /\ file.id # NoId THEN file.id ELSE id

Parsing(lines, n) ==
    [ev |-> "parse", lines |-> lines,
     failed |-> IF n.kind = "list"
                THEN Failures(ListLocals(_sync_header(ReadFile(lines), n),
                                         ReadFile(lines).id),
                              ReadFile(lines).text)
                ELSE {}]

\* The checklists the parser is given: no item, or two of which those of
\* one text may be checked
ParseInputs ==
    {ListNote("A", items) :
        items \in {c \in Checklists(0) \cup Checklists(2) :
                      \A j \in DOMAIN c : c[j].checked => c[j].text = "a"}}

ParseInit ==
    /\ state = "Running"
    /\ syncArchived = FALSE
    /\ labels = {}
    /\ modal = NoModal
    /\ notes \in [{1} -> ParseInputs]
    /\ disk = Mirror(notes)
    /\ counts = apply_counts(notes)
    /\ cache = [has |-> TRUE, notes |-> notes]
    /\ protected = {}
    /\ updated = {}
    /\ pending = NoPending
    /\ renames = <<>>
    /\ pc = "idle"
    /\ lastOp = "init"
    /\ log = <<>>
    /\ syncs = 0
    /\ edits = 0
    /\ HostIdle

\* keep.parse(api, lines, note) on the lines of the buffer of the note's
\* file: _parse_header, _sync_header and the body
ParseBuffer ==
    /\ state = "Running"
    /\ lastOp = "init"
    /\ \E lines \in RawFiles :
        /\ disk' = [p \in DOMAIN disk |-> ReadFile(lines)]
        /\ notes' = [i \in {_sync_header_id(ReadFile(lines), 1)} |->
                        parse(ReadFile(lines), notes[1])]
        /\ log' = <<Parsing(lines, notes[1])>>
    /\ lastOp' = "parse"
    /\ UNCHANGED <<state, syncArchived, labels, modal, counts, cache, protected, updated,
                   pending, renames, pc, syncs, edits>>
    /\ UNCHANGED hostVars

ParseNext ==
    \/ ParseBuffer

ParseSpec == ParseInit /\ [][ParseNext]_vars

(***************************************************************************)
(* The life cycle with the protected set.  The sync directory holds the    *)
(* file of the one note the server has, as an earlier session left it;     *)
(* _reset_all_state deletes the saved state, so that every start finds     *)
(* none.  The threads are those of the life cycle above, but FileSync.start*)
(* and FileSync.finish_startup act on the protected set and on the files.  *)
(***************************************************************************)
ServerNotes == [i \in {1} |-> Version("A", "x", FALSE, FALSE)]

StartupInit ==
    /\ state = "Uninitialized"
    /\ syncArchived = FALSE
    /\ labels = {}
    /\ modal = NoModal
    /\ notes = EmptyMap
    /\ counts = NoCounts
    /\ cache = NoCache
    /\ disk = Mirror(ServerNotes)
    /\ protected = {}
    /\ updated = {}
    /\ pending = NoPending
    /\ renames = <<>>
    /\ pc = "idle"
    /\ lastOp = [op |-> "init", from |-> "Uninitialized"]
    /\ log = <<>>
    /\ syncs = 0
    /\ edits = 0
    /\ HostIdle

\* _resume: self._sync.start(state): the assert, then the protected set
start_thread(t) ==
    /\ At(t, "_resume", "start")
    /\ IF state = "Uninitialized"
       THEN /\ protected' = protected
                    \cup start_protected(cache.has, cache.notes, disk)
            /\ threads' = Goto(t, "set_state")
            /\ UNCHANGED <<locks, log>>
       ELSE /\ Leave(t)
            /\ Raise("start")
            /\ UNCHANGED protected
    /\ UNCHANGED <<state, syncArchived, labels, modal, notes, counts, cache, disk, updated,
                   pending, renames, pc, syncs, edits, lastOp, queue>>

\* _finish_initial_sync up to the return of FileSync.finish_startup: the
\* assert, the files, and self._protected_files.clear()
finish_startup_thread(t) ==
    /\ At(t, "_sync_notes", "finish_startup")
    /\ IF state = "InitialSync"
       THEN /\ \E r \in {finish_startup(ServerNotes, disk, apply_counts(ServerNotes),
                                        protected, <<1>>, {1})} :
                disk' = r.disk
            /\ protected' = {}
            /\ threads' = Goto(t, "set_state")
            /\ UNCHANGED <<locks, log, queue>>
       ELSE /\ Leave(t)
            /\ Raise("finish_startup")
            /\ queue' = dispatch(queue, state, "handle_sync_error")
            /\ UNCHANGED <<disk, protected>>
    /\ UNCHANGED <<state, syncArchived, labels, modal, notes, counts, cache, updated,
                   pending, renames, pc, syncs, edits, lastOp>>

StartupNext ==
    \/ on_shutdown
    \/ preload
    \/ cmd_login
    \/ cmd_logout
    \/ cmd_sync
    \/ event_sync
    \/ event_handle_sync_error
    \/ event_finish_sync
    \/ \E t \in 1..MaxThreads : Enter(t)
    \/ \E t \in 1..MaxThreads : _resume_check(t)
    \/ \E t \in 1..MaxThreads : start_thread(t)
    \/ \E t \in 1..MaxThreads : _resume_set_state(t)
    \/ \E t \in 1..MaxThreads : _resume_sync(t)
    \/ \E t \in 1..MaxThreads : _sync_notes(t)
    \/ \E t \in 1..MaxThreads : finish_startup_thread(t)
    \/ \E t \in 1..MaxThreads : _finish_initial_sync_running(t)
    \/ \E t \in 1..MaxThreads : _write_files_thread(t)

StartupSpec == StartupInit /\ [][StartupNext]_vars

(***************************************************************************)
(* The foreground: the handlers the host's loop runs for the user while    *)
(* the plugin starts and runs (plugin.py), each behind require_state, and  *)
(* what they do to the notes and the labels of KeepApi.  The menu, the     *)
(* note list and the popup are open; the cached account holds one note.    *)
(***************************************************************************)
LabelNames == {"l", "m"}

\* require_state: f runs unless states are given and exclude the state, or
\* inv holds it
require_state(states, inv, st) ==
    /\ states = {} \/ st \in states
    /\ st \notin inv

\* list_action: "Only allow read actions until state is Running"
read_actions == {"preview", "select", "cursor_moved", "update_preview"}

ListActions == read_actions \cup {"archive"}

\* the notes a view can select
Selectable(store) == {i \in DOMAIN store : store[i].kind = "note"}

\* api.is_dirty: some note has changes the server has not seen
is_dirty(store) == \E i \in Selectable(store) : store[i].dirty

\* cmd_archive of NoteList and of NotePopup
cmd_archive(store, i) ==
    [store EXCEPT ![i].archived = ~@, ![i].dirty = TRUE]

\* GkeepPlugin.event_sync called by a handler: api.sync when the api is dirty
call_event_sync(store) ==
    IF state = "Running" /\ is_dirty(store)
    THEN background("_sync_notes", "sync")
    ELSE UNCHANGED threads

\* a handler that was ignored, or that changed neither the api nor a modal
Ignored(op) ==
    /\ lastOp' = op
    /\ UNCHANGED <<state, dataVars, log, hostVars>>

ForegroundInit ==
    /\ state = "Uninitialized"
    /\ syncArchived = FALSE
    /\ labels = {}
    /\ modal = NoModal
    /\ notes = EmptyMap
    /\ counts = NoCounts
    /\ cache = [has |-> TRUE,
                notes |-> [i \in {1} |-> Version("A", "x", FALSE, FALSE)]]
    /\ disk = Mirror(cache.notes)
    /\ protected = {}
    /\ updated = {}
    /\ pending = NoPending
    /\ renames = <<>>
    /\ pc = "idle"
    /\ lastOp = "init"
    /\ log = <<>>
    /\ syncs = 0
    /\ edits = 0
    /\ HostIdle

\* GkeepPlugin._finish_initial_sync up to the call of finish_startup, when
\* the server has nothing new: apply_updates, save_state
ApplyNoUpdates ==
    /\ state = "InitialSync"
    /\ pc = "syncing"
    /\ notes' = apply_store(notes, EmptyMap)
    /\ updated' = apply_updated(notes, EmptyMap)
    /\ counts' = apply_counts(notes')
    /\ cache' = [has |-> TRUE, notes |-> notes']
    /\ pc' = "fetched"
    /\ lastOp' = "apply_updates"
    /\ UNCHANGED <<state, syncArchived, labels, modal, disk, protected,
                   pending, renames, log, syncs, edits>>
    /\ UNCHANGED hostVars

\* GkeepPlugin.list_action
list_action ==
    \E action \in ListActions :
        IF /\ require_state({"InitialSync", "Running"}, {}, state)
           /\ ~(state = "InitialSync" /\ action \notin read_actions)
           /\ action = "archive"
        THEN /\ Len(queue) < MaxQueue
             /\ \E i \in Selectable(notes) : notes' = cmd_archive(notes, i)
             /\ queue' = dispatch(queue, state, "sync")
             /\ lastOp' = "list_action"
             /\ UNCHANGED <<state, syncArchived, labels, modal, counts, cache,
                            disk, protected, updated, pending, renames, pc,
                            log, syncs, edits, threads, locks>>
        ELSE Ignored("list_action")

\* GkeepPlugin.popup_action
popup_action ==
    IF require_state({"Running"}, {}, state)
    THEN /\ Len(queue) < MaxQueue
         /\ \E i \in Selectable(notes) : notes' = cmd_archive(notes, i)
         /\ queue' = dispatch(queue, state, "sync")
         /\ lastOp' = "popup_action"
         /\ UNCHANGED <<state, syncArchived, labels, modal, counts, cache,
                        disk, protected, updated, pending, renames, pc,
                        log, syncs, edits, threads, locks>>
    ELSE Ignored("popup_action")

\* GkeepPlugin._save_note: BufWriteCmd of a gkeep:// buffer
_save_note ==
    IF require_state({"InitialSync", "Running"}, {}, state)
       /\ state # "InitialSync"
    THEN /\ \E i \in Selectable(notes), x \in Texts :
            /\ is_ephemeral(bufname(i, notes[i], counts))
            /\ notes[i].text # x
            /\ notes' = [notes EXCEPT ![i].text = x, ![i].dirty = TRUE]
         /\ call_event_sync(notes')
         /\ lastOp' = "_save_note"
         /\ UNCHANGED <<state, syncArchived, labels, modal, counts, cache,
                        disk, protected, updated, pending, renames, pc,
                        log, syncs, edits, locks, queue>>
    ELSE Ignored("_save_note")

\* GkeepPlugin._maybe_sync: a note file was saved, its note is parsed from it
_maybe_sync ==
    IF require_state({"Running"}, {}, state)
    THEN /\ \E p \in _find_files(disk), x \in Texts :
            /\ disk[p].id \in Selectable(notes)
            /\ disk[p].text # x
            /\ disk' = [disk EXCEPT ![p].text = x]
            /\ notes' = [notes EXCEPT ![disk[p].id].text = x,
                                      ![disk[p].id].dirty = TRUE]
         /\ call_event_sync(notes')
         /\ lastOp' = "_maybe_sync"
         /\ UNCHANGED <<state, syncArchived, labels, modal, counts, cache,
                        protected, updated, pending, renames, pc,
                        log, syncs, edits, locks, queue>>
    ELSE Ignored("_maybe_sync")

\* GkeepPlugin._on_buf_write_pre: a file without an id is about to be saved
_on_buf_write_pre ==
    IF require_state({"Running"}, {}, state)
    THEN \E title \in Titles :
           LET p == [dir |-> "sync", name |-> title, qual |-> NoId,
                     local |-> FALSE]
               d == SetKey(disk, p, [title |-> title, id |-> NoId, text |-> "x"])
               l == create_note_from_file(
                        [notes |-> notes, disk |-> d, renames |-> <<>>,
                         log |-> <<>>, err |-> FALSE, full |-> FALSE],
                        p, counts)
           IN  /\ p \notin DOMAIN disk
               /\ ~l.full
               /\ Len(queue) < MaxQueue
               /\ notes' = l.notes
               /\ disk' = l.disk
               /\ queue' = IF l.renames # <<>>
                           THEN dispatch(queue, state, "rename_files")
                           ELSE queue
               /\ lastOp' = "_on_buf_write_pre"
               /\ UNCHANGED <<state, syncArchived, labels, modal, counts,
                              cache, protected, updated, pending, renames, pc,
                              log, syncs, edits, threads, locks>>
    ELSE Ignored("_on_buf_write_pre")

\* GkeepPlugin._new_note with a type and a title: NoteList._new_note
_new_note ==
    IF require_state({"Running"}, {}, state)
    THEN \E title \in Titles :
           LET id == FreshId(notes, disk)
               note == NewNote(title, "")
               path == filepath(id, note, counts)
           IN  /\ id # NoId
               /\ notes' = SetKey(notes, id, note)
               /\ disk' = IF path = NoPath THEN disk
                          ELSE SetKey(disk, path, serialize(id, note))
               /\ lastOp' = "_new_note"
               /\ UNCHANGED <<state, syncArchived, labels, modal, counts,
                              cache, protected, updated, pending, renames, pc,
                              log, syncs, edits, hostVars>>
    ELSE Ignored("_new_note")

MenuActions == {"select", "new_label", "delete"}

\* GkeepPlugin.menu_action: Menu.cmd_new_label opens the prompt, cmd_delete
\* on a label asks for confirmation, cmd_select changes the query
menu_action ==
    \E action \in MenuActions :
        IF require_state({}, {"ShuttingDown"}, state) /\ action # "select"
        THEN /\ \/ /\ action = "new_label"
                   /\ modal' = [kind |-> "prompt", on |-> "new_label"]
                \/ /\ action = "delete"
                   /\ \E item \in labels :
                        modal' = [kind |-> "confirm", on |-> item]
             /\ lastOp' = "menu_action"
             /\ UNCHANGED <<state, syncArchived, labels, notes, counts, cache,
                            disk, protected, updated, pending, renames, pc,
                            log, syncs, edits, hostVars>>
        ELSE Ignored("menu_action")

\* GkeepPlugin.close_prompt: Prompt.close(text) runs the callback, here
\* Menu._new_label; text is None when the prompt was cancelled
close_prompt ==
    \E text \in LabelNames \cup {""} :
        IF /\ require_state({}, {"ShuttingDown"}, state)
           /\ modal.kind = "prompt"
        THEN /\ Len(queue) < MaxQueue
             /\ modal' = NoModal
             /\ labels' = IF text # "" THEN labels \cup {text} ELSE labels
             /\ queue' = IF text # "" THEN dispatch(queue, state, "sync")
                         ELSE queue
             /\ lastOp' = "close_prompt"
             /\ UNCHANGED <<state, syncArchived, notes, counts, cache,
                            disk, protected, updated, pending, renames, pc,
                            log, syncs, edits, threads, locks>>
        ELSE Ignored("close_prompt")

\* GkeepPlugin.modal_action on the confirm window: select runs the callback,
\* here Menu.cmd_delete(ret == YES, item); cancel drops it
modal_action ==
    \E meth \in {"select", "cancel"}, yes \in BOOLEAN :
        IF /\ require_state({}, {"ShuttingDown"}, state)
           /\ modal.kind = "confirm"
        THEN /\ Len(queue) < MaxQueue
             /\ modal' = NoModal
             /\ IF meth = "select" /\ yes /\ modal.on \in labels
                THEN /\ labels' = labels \ {modal.on}
                     /\ queue' = dispatch(queue, state, "sync")
                ELSE UNCHANGED <<labels, queue>>
             /\ lastOp' = "modal_action"
             /\ UNCHANGED <<state, syncArchived, notes, counts, cache,
                            disk, protected, updated, pending, renames, pc,
                            log, syncs, edits, threads, locks>>
        ELSE Ignored("modal_action")

\* the events the handlers dispatched, taken off the host's queue
event_sync_foreground ==
    /\ queue # <<>>
    /\ queue' = Tail(queue)
    /\ IF Head(queue) = "sync" THEN call_event_sync(notes)
       ELSE UNCHANGED threads
    /\ lastOp' = "event"
    /\ UNCHANGED <<state, dataVars, log, locks>>

ForegroundOps ==
    {"list_action", "popup_action", "_save_note", "_maybe_sync",
     "_on_buf_write_pre", "_new_note", "menu_action", "close_prompt",
     "modal_action"}

ForegroundNext ==
    \/ Start
    \/ ApplyNoUpdates
    \/ FinishStartup
    \/ list_action
    \/ popup_action
    \/ _save_note
    \/ _maybe_sync
    \/ _on_buf_write_pre
    \/ _new_note
    \/ menu_action
    \/ close_prompt
    \/ modal_action
    \/ event_sync_foreground

ForegroundSpec == ForegroundInit /\ [][ForegroundNext]_vars

(***************************************************************************)
(* The startup with the user at work: a note file is edited on disk while  *)
(* the initial sync is under way, after FileSync.start read the files and  *)
(* before finish_startup writes them.                                      *)
(***************************************************************************)
Edited(events, p) == \E k \in DOMAIN events : events[k] = Event("edit", p, disk[p].id)

\* The user edits the body of a note file between start and finish_startup
UserEditWhileStarting ==
    /\ state = "InitialSync"
    /\ pc \in {"syncing", "fetched"}
    /\ log = <<>>
    /\ edits < MaxEdits
    /\ edits' = edits + 1
    /\ \E p \in _find_files(disk), x \in Texts :
        /\ disk[p].text # x
        /\ disk' = [disk EXCEPT ![p].text = x]
        /\ log' = <<Event("edit", p, disk[p].id)>>
    /\ lastOp' = "user_edit"
    /\ UNCHANGED <<state, syncArchived, labels, modal, notes, counts, cache,
                   protected, updated, pending, renames, pc, syncs>>
    /\ UNCHANGED hostVars

EditNext ==
    \/ Next
    \/ UserEditWhileStarting

EditSpec == Init /\ [][EditNext]_vars

(***************************************************************************)
(* The parser run twice: the buffer that was parsed into the note is       *)
(* parsed into it again, unchanged, as a second save of the file does.     *)
(***************************************************************************)
ParseAgain ==
    /\ state = "Running"
    /\ lastOp = "parse"
    /\ \E lines \in {log[1].lines}, id \in DOMAIN notes :
        /\ notes' = [i \in {_sync_header_id(ReadFile(lines), id)} |->
                        parse(ReadFile(lines), notes[id])]
        /\ log' = Append(log, Parsing(lines, notes[id]))
    /\ lastOp' = "parse_again"
    /\ UNCHANGED <<state, syncArchived, labels, modal, counts, cache, disk,
                   protected, updated, pending, renames, pc, syncs, edits>>
    /\ UNCHANGED hostVars

ReparseNext ==
    \/ ParseBuffer
    \/ ParseAgain

ReparseSpec == ParseInit /\ [][ReparseNext]_vars

(***************************************************************************)
(* The properties.  A property of an operation compares the state before   *)
(* the step (unprimed) with the state after it (primed); its witness reads *)
(* the log the operation left.                                             *)
(***************************************************************************)
\* The step is a finish_startup that returned / a write_files
FinishedStartup == pc = "fetched" /\ lastOp' = "finish_startup"

WroteFiles == pending.has /\ lastOp' = "write_files"

\* Before the step: the file found for note i, the NoteFile of note i
ExistingFile(i) ==
    IF i \in DOMAIN files_by_id(disk) THEN files_by_id(disk)[i] ELSE NoPath

Target(i) == from_note(i, notes[i], counts)

Materializable(i) == ~is_ephemeral(Target(i).bufname)

Differs(i) ==
    /\ Materializable(i)
    /\ ExistingFile(i) # NoPath
    /\ disk[ExistingFile(i)] # Target(i).lines

IsBackup(n) == n.trashed /\ \E t \in Titles : n.title = BackupTitle(t)

\* The Backup Notes the step adds
AddedBackups == {b \in DOMAIN notes' \ DOMAIN notes : IsBackup(notes'[b])}

\* What the log of the last operation holds
LoggedAt(ev, p) == \E k \in DOMAIN log : log[k].ev = ev /\ log[k].path = p

LoggedNext(ev, p) == \E k \in DOMAIN log' : log'[k].ev = ev /\ log'[k].path = p

\* The file of note i is protected, differs from the note and the sync
\* updated the note
Conflict(i) ==
    /\ Differs(i)
    /\ ExistingFile(i) \in protected
    /\ i \in updated

\* C1 as the specification states it: in finish_startup, a protected file
\* that differs from its note, the note being in updatedIds, gets exactly one
\* Backup Note with the remote content, the live note takes the file's
\* content and is dirty, and the file is left unchanged.
C1_Original ==
    [][FinishedStartup =>
        \A i \in DOMAIN notes : Conflict(i) =>
            /\ Cardinality({b \in AddedBackups : notes'[b] = _make_backup(notes[i], b)}) = 1
            /\ notes'[i].text = disk[ExistingFile(i)].text
            /\ notes'[i].dirty
            /\ ExistingFile(i) \in DOMAIN disk'
            /\ disk'[ExistingFile(i)] = disk[ExistingFile(i)]]_vars

\* C1, amended: in finish_startup, a protected file that differs from its
\* note, the note being in updatedIds, gets no Backup Note and is not loaded:
\* the live note stays as the sync delivered it, and the file is soft-deleted
\* and written over (it is not left unchanged).
C1_RemoteWins ==
    [][FinishedStartup =>
        \A i \in DOMAIN notes : Conflict(i) =>
            /\ ~LoggedNext("backup", ExistingFile(i))
            /\ ~LoggedNext("load", ExistingFile(i))
            /\ notes'[i] = notes[i]
            /\ LoggedNext("softdelete", ExistingFile(i))
            /\ \E k \in DOMAIN log' :
                log'[k] = Written(ExistingFile(i), Target(i).lines)
            /\ \/ ExistingFile(i) \notin DOMAIN disk'
               \/ disk'[ExistingFile(i)] # disk[ExistingFile(i)]]_vars

\* A finish_startup soft-deleted the file of a note and wrote the note over
\* it, and made no backup
C1_Witness ==
    /\ lastOp = "finish_startup"
    /\ \E k \in DOMAIN log :
        /\ log[k].ev = "softdelete"
        /\ k < Len(log)
        /\ log[k + 1].ev = "write"
        /\ log[k + 1].path = log[k].path
        /\ log[k + 1].id = log[k].id
        /\ log[k].id \in DOMAIN notes
        /\ ~notes[log[k].id].dirty
    /\ \A k \in DOMAIN log : log[k].ev # "backup"

\* C2: in finish_startup, a protected file that differs from its note, the
\* note being in updatedIds, afterwards holds the note's serialization and its
\* previous content is at <path>.local (the claim adds: and the rename map
\* has no entry for it).
C2_ProtectedFileReplaced ==
    [][FinishedStartup =>
        \A i \in DOMAIN notes : Conflict(i) =>
            /\ ExistingFile(i) \in DOMAIN disk'
            /\ disk'[ExistingFile(i)] = Target(i).lines
            /\ get_local_file(ExistingFile(i)) \in DOMAIN disk'
            /\ disk'[get_local_file(ExistingFile(i))] = disk[ExistingFile(i)]]_vars

\* The file of note i differs from the note and the sync did not update
\* the note
NeedLoad(i) == Differs(i) /\ i \notin updated

\* C3: in finish_startup, a file that differs from its note, the note not
\* being in updatedIds, is not written; afterwards the live note holds the
\* file's content and is dirty, and exactly one trashed Backup Note with the
\* note's previous content was added for the file.
C3_LocalWins ==
    [][FinishedStartup =>
        \A i \in DOMAIN notes : NeedLoad(i) =>
            /\ ~LoggedNext("write", ExistingFile(i))
            /\ ~LoggedNext("softdelete", ExistingFile(i))
            /\ ExistingFile(i) \in DOMAIN disk'
            /\ disk'[ExistingFile(i)] = disk[ExistingFile(i)]
            /\ notes'[i].title = disk[ExistingFile(i)].title
            /\ notes'[i].text = disk[ExistingFile(i)].text
            /\ notes'[i].dirty
            /\ Cardinality({k \in DOMAIN log' :
                    log'[k].ev = "backup" /\ log'[k].path = ExistingFile(i)}) = 1
            /\ \A k \in DOMAIN log' :
                log'[k].ev = "backup" /\ log'[k].path = ExistingFile(i) =>
                    /\ log'[k].id \in AddedBackups
                    /\ notes'[log'[k].id] = _make_backup(notes[i], log'[k].id)]_vars

\* A finish_startup made a backup of a note and loaded the note's file,
\* without writing the file
C3_Witness ==
    /\ lastOp = "finish_startup"
    /\ \E k \in DOMAIN log :
        /\ log[k].ev = "backup"
        /\ k < Len(log)
        /\ log[k + 1].ev = "load" /\ log[k + 1].path = log[k].path
        /\ ~LoggedAt("write", log[k].path)
        /\ log[k].id \in DOMAIN notes /\ IsBackup(notes[log[k].id])
        /\ log[k + 1].id \in DOMAIN notes /\ notes[log[k + 1].id].dirty

\* The file of note i is not protected, differs from the note and the sync
\* updated the note
Overwrite(i) ==
    /\ Differs(i)
    /\ ExistingFile(i) \notin protected
    /\ i \in updated

\* C4: in finish_startup, a file that is not protected and differs from its
\* note, the note being in updatedIds, is written over in place with the
\* note's serialization: no <path>.local copy and no Backup Note is made.
C4_OverwriteInPlace ==
    [][FinishedStartup =>
        \A i \in DOMAIN notes : Overwrite(i) =>
            /\ \E k \in DOMAIN log' :
                log'[k] = Written(ExistingFile(i), Target(i).lines)
            /\ ~LoggedNext("softdelete", ExistingFile(i))
            /\ get_local_file(ExistingFile(i)) \in DOMAIN disk' =>
                /\ get_local_file(ExistingFile(i)) \in DOMAIN disk
                /\ disk'[get_local_file(ExistingFile(i))] =
                        disk[get_local_file(ExistingFile(i))]
            /\ ~LoggedNext("backup", ExistingFile(i))
            /\ notes'[i] = notes[i]]_vars

\* A finish_startup wrote an updated note over the file it had (the rename
\* map shows neither a new file nor a move) without a soft-delete: the file
\* holds the note and nothing is at <path>.local
C4_Witness ==
    /\ lastOp = "finish_startup"
    /\ \E k \in DOMAIN log :
        /\ log[k].ev = "write"
        /\ log[k].id \in updated
        /\ log[k].path \notin Keys(renames)
        /\ \A j \in DOMAIN renames : renames[j][2] # log[k].path
        /\ ~LoggedAt("softdelete", log[k].path)
        /\ log[k].path \in DOMAIN disk
        /\ disk[log[k].path] = serialize(log[k].id, notes[log[k].id])
        /\ get_local_file(log[k].path) \notin DOMAIN disk
        /\ \A j \in DOMAIN log : log[j].ev # "backup"

\* C5 as the specification states it: a Backup Note is added only by
\* finish_startup, and only for a protected file whose note is in updatedIds.
C5_Original ==
    [][\A b \in AddedBackups :
        /\ FinishedStartup
        /\ \E k \in DOMAIN log' :
            /\ log'[k] = Event("backup", log'[k].path, b)
            /\ log'[k].path \in protected
            /\ log'[k].path \in DOMAIN disk
            /\ disk[log'[k].path].id \in updated]_vars

\* C5, amended: a Backup Note is added only by finish_startup, and only for
\* an existing file that differs from its note's serialization and whose
\* note is not in updatedIds (protected or not); the backup copies that note.
C5_OnlyNeedLoad ==
    [][\A b \in AddedBackups :
        /\ FinishedStartup
        /\ \E i \in DOMAIN notes :
            /\ NeedLoad(i)
            /\ \E k \in DOMAIN log' : log'[k] = Event("backup", ExistingFile(i), b)
            /\ notes'[b] = _make_backup(notes[i], b)]_vars

\* A finish_startup added a Backup Note and loaded the file of a note the
\* sync did not update: the store holds the backup
C5_Witness ==
    /\ lastOp = "finish_startup"
    /\ \E k \in DOMAIN log :
        /\ log[k].ev = "backup"
        /\ log[k].id \in DOMAIN notes
        /\ IsBackup(notes[log[k].id])
        /\ \E j \in DOMAIN log : log[j].ev = "load" /\ log[j].id \notin updated

\* The files that carry an id no note of the store has
Orphans == {f \in _find_files(disk) : disk[f].id # NoId /\ disk[f].id \notin DOMAIN notes}

\* C7: after finish_startup, a file whose id matches no note is gone from
\* its path, its content is at <path>.local, and the rename map has no entry
\* for it.
C7_OrphanSoftDeleted ==
    [][FinishedStartup =>
        \A f \in Orphans :
            /\ f \notin DOMAIN disk'
            /\ get_local_file(f) \in DOMAIN disk'
            /\ disk'[get_local_file(f)] = disk[f]
            /\ f \notin Keys(renames')]_vars

\* Note i has the virtual address and a file carries its id
VirtualWithFile(i) ==
    /\ ~Materializable(i)
    /\ ExistingFile(i) # NoPath

\* The notes the step passes to _write_files
Passed ==
    IF FinishedStartup THEN DOMAIN notes
    ELSE IF WroteFiles THEN {pending.nfs[k].id : k \in DOMAIN pending.nfs}
    ELSE {}

\* C8 as the specification states it: finish_startup and write_files write
\* no file for a note with the virtual address, and where a file of it was,
\* no file is afterwards.
C8_Original ==
    [][\A i \in Passed \cap DOMAIN notes :
        ~Materializable(i) =>
            /\ \A k \in DOMAIN log' : log'[k].ev = "write" => log'[k].id # i
            /\ ExistingFile(i) # NoPath => ExistingFile(i) \notin DOMAIN disk']_vars

\* C8, amended: finish_startup and write_files write no file for a note with
\* the virtual address, and afterwards no resolvable file carries its id:
\* where its file was there is no file or the file of another note.
C8_NoFileOfVirtualNote ==
    [][\A i \in Passed \cap DOMAIN notes :
        ~Materializable(i) =>
            /\ \A k \in DOMAIN log' : log'[k].ev = "write" => log'[k].id # i
            /\ \A f \in _find_files(disk') : disk'[f].id # i]_vars

\* A pass removed the file of a note with the virtual address: the note is
\* in the store, the rename map leads from the file to the virtual address
C8_Witness ==
    /\ lastOp \in {"finish_startup", "write_files"}
    /\ \E k \in DOMAIN log :
        /\ log[k].ev \in {"unlink", "softdelete"}
        /\ log[k].id \in DOMAIN notes
        /\ is_ephemeral(bufname(log[k].id, notes[log[k].id], counts))
        /\ log[k].path \in Keys(renames)
        /\ is_ephemeral(DictGet(renames, log[k].path))

\* The file of note i is no longer the file of note i after the step
FileRemoved(i) ==
    \/ ExistingFile(i) \notin DOMAIN disk'
    \/ disk'[ExistingFile(i)].id # i

\* C9 as the specification states it: when write_files or finish_startup
\* removes the file of a note that is not materializable, the file's content
\* is afterwards at <path>.local.
C9_Original ==
    [][\A i \in Passed \cap DOMAIN notes :
        VirtualWithFile(i) /\ FileRemoved(i) =>
            /\ get_local_file(ExistingFile(i)) \in DOMAIN disk'
            /\ disk'[get_local_file(ExistingFile(i))] = disk[ExistingFile(i)]]_vars

\* C9, amended: the file of a note that is not materializable is soft-deleted
\* (renamed to <path>.local) only by finish_startup and only when the file is
\* protected; write_files, and finish_startup for a file that is not
\* protected, delete it and leave what is at <path>.local as it was.
C9_SoftDeleteOnlyProtected ==
    [][\A i \in Passed \cap DOMAIN notes :
        VirtualWithFile(i) =>
            /\ FileRemoved(i)
            /\ IF FinishedStartup /\ ExistingFile(i) \in protected
               THEN /\ LoggedNext("softdelete", ExistingFile(i))
                    /\ ~LoggedNext("unlink", ExistingFile(i))
                    /\ get_local_file(ExistingFile(i)) \in DOMAIN disk'
               ELSE /\ LoggedNext("unlink", ExistingFile(i))
                    /\ ~LoggedNext("softdelete", ExistingFile(i))
                    /\ IF get_local_file(ExistingFile(i)) \in DOMAIN disk
                       THEN /\ get_local_file(ExistingFile(i)) \in DOMAIN disk'
                            /\ disk'[get_local_file(ExistingFile(i))] =
                                    disk[get_local_file(ExistingFile(i))]
                       ELSE get_local_file(ExistingFile(i)) \notin DOMAIN disk']_vars

\* A write_files deleted the file of a trashed note: nothing is at the path
\* nor at <path>.local
C9_Witness ==
    /\ lastOp = "write_files"
    /\ \E k \in DOMAIN log :
        /\ log[k].ev = "unlink"
        /\ log[k].id \in DOMAIN notes
        /\ notes[log[k].id].trashed
        /\ log[k].path \notin DOMAIN disk
        /\ get_local_file(log[k].path) \notin DOMAIN disk

\* C10: a file at <path>.local is never deleted and never has its content
\* replaced by a later step.
C10_LocalFileKept ==
    [][\A p \in DOMAIN disk :
        p.local => p \in DOMAIN disk' /\ disk'[p] = disk[p]]_vars

\* The place in items of the item with the reference ref (0: none)
PlaceOf(items, ref) ==
    IF \E k \in DOMAIN items : items[k].ref = ref
    THEN CHOOSE k \in DOMAIN items : items[k].ref = ref
    ELSE 0

\* C6: a backup is a new note, with an id of its own, of the kind of the
\* original, trashed and dirty, titled "[Backup <date>] <title>"; a freeform
\* backup has the original's text, a checklist backup has one copy of every
\* item, with its text, checked flag, sort and place under its parent; and a
\* change of the backup changes nothing of the original.
C6_BackupIsACopy ==
    [][/\ lastOp' = "make_backup" =>
            \E b \in DOMAIN notes' \ DOMAIN notes :
                /\ DOMAIN notes' = DOMAIN notes \cup {b}
                /\ notes'[1] = notes[1]
                /\ notes'[b].kind = notes[1].kind
                /\ notes'[b].trashed
                /\ notes'[b].dirty
                /\ notes'[b].title = "[Backup " \o Today \o "] " \o notes[1].title
                /\ notes[1].kind = "note" => notes'[b].text = notes[1].text
                /\ notes[1].kind = "list" =>
                    /\ Len(notes'[b].items) = Len(notes[1].items)
                    /\ \A k \in DOMAIN notes[1].items :
                        /\ notes'[b].items[k].text = notes[1].items[k].text
                        /\ notes'[b].items[k].checked = notes[1].items[k].checked
                        /\ notes'[b].items[k].sort = notes[1].items[k].sort
                        /\ PlaceOf(notes'[b].items, notes'[b].items[k].parent) =
                                PlaceOf(notes[1].items, notes[1].items[k].parent)
                        /\ PlaceOf(notes[1].items, notes'[b].items[k].ref) = 0
       /\ lastOp' = "edit_backup" =>
            /\ notes'[1] = notes[1]
            /\ notes' # notes]_vars

\* The backup of a checklist with an indented item was made and then changed
C6_Witness ==
    /\ lastOp = "edit_backup"
    /\ notes[1].kind = "list"
    /\ \E k \in DOMAIN notes[1].items : notes[1].items[k].parent # NoRef
    /\ \E b \in DOMAIN notes \ {1} :
        /\ IsBackup(notes[b])
        /\ \E k \in DOMAIN notes[b].items :
            /\ notes[b].items[k].text = "FOO"
            /\ notes[b].items[k].parent # NoRef

\* The step is the second of two write_files calls with the same snapshots
WroteAgain == lastOp = "write_files" /\ lastOp' = "write_files_again"

\* C11: calling write_files twice in a row with the same snapshot list, with
\* nothing in between, performs no disk write in the second call (the disk
\* is as the first call left it) and the second call returns an empty rename
\* map.
C11_SecondCallIdle ==
    [][WroteAgain =>
        /\ disk' = disk
        /\ \A k \in DOMAIN log' : log'[k].ev # "write"
        /\ renames' = <<>>]_vars

\* The step is the first write_files call on the snapshots
WroteOnce == lastOp \in {"finish_sync", "save_note"} /\ lastOp' = "write_files"

\* What _write_files makes of the disk and the snapshots alone
SnapshotResult ==
    _write_files(disk, {}, pending.nfs,
                 {pending.nfs[k].id : k \in DOMAIN pending.nfs}, FALSE)

Parsed == lastOp = "maybe_sync"

NoteBefore == cache.notes[1]

NoteAfter == notes[1]

TheFile == disk[CHOOSE p \in DOMAIN disk : TRUE]

RoundTrip == Parsed /\ TheFile = serialize(1, NoteBefore)

Descending(items) ==
    \A j \in DOMAIN items : j > 1 => items[j].sort < items[j - 1].sort

NormalForm(n) ==
    /\ strip(n.title) = n.title
    /\ \A j \in DOMAIN n.items :
        /\ strip(n.items[j].text) = n.items[j].text
        /\ (n.items[j].parent # NoRef /\ ItemAt(n.items, n.items[j].parent).checked)
              => n.items[j].checked
    /\ Descending(n.items)

Reconciled == Parsed /\ NoteBefore.kind = "list"

IsLine(line) == line.kind # "blank"

Lines == SelectSeq(TheFile.text, IsLine)

ItemsBefore == NoteBefore.items

ItemsAfter == NoteAfter.items

Read(L, k) == LineMatch(L[k])

\* The existing items with the text of line k, in their order, and how many
\* earlier lines have that text
SameText(L, B, k) == SelectSeq(B, LAMBDA x : x.text = Read(L, k).text)

Earlier(L, k) == Cardinality({j \in 1..(k - 1) : Read(L, j).text = Read(L, k).text})

Matched(L, B, k) == Earlier(L, k) < Len(SameText(L, B, k))

MatchOf(L, B, k) == SameText(L, B, k)[Earlier(L, k) + 1]

\* The indentation, the parent and the checked state line k asks for
Indented(L, k) == Read(L, k).indented /\ k > 1

ParentLine(L, k) ==
    CHOOSE j \in 1..(k - 1) :
        ~Indented(L, j) /\ \A m \in (j + 1)..(k - 1) : Indented(L, m)

ParentOf(L, A, k) == IF Indented(L, k) THEN A[ParentLine(L, k)].ref ELSE NoRef

Checked(L, k) ==
    Read(L, k).checked \/ (Indented(L, k) /\ Read(L, ParentLine(L, k)).checked)

Renumbered(A) == \A j \in DOMAIN A : A[j].sort = (1 - j) * SortStep

Refs(items) == {items[j].ref : j \in DOMAIN items}

\* The item of line k is the existing item m, which keeps what it had if it
\* had what the line asks for
KeptItem(L, A, k, m) ==
    /\ k \in DOMAIN A
    /\ A[k].ref = m.ref
    /\ (m.checked = Checked(L, k) /\ m.parent = ParentOf(L, A, k))
          => /\ A[k].text = m.text
             /\ A[k].checked = m.checked
             /\ A[k].parent = m.parent
             /\ (A[k] = m \/ Renumbered(A))

IdentityPreserved(L, B, A) ==
    /\ \A k \in DOMAIN L : Matched(L, B, k) => KeptItem(L, A, k, MatchOf(L, B, k))
    /\ \A j, k \in DOMAIN A : j # k => A[j].ref # A[k].ref

\* C14: reconciliation preserves identity.  A line whose text is the text of
\* an existing item not yet matched is given that item (of the items with
\* one text, the first line takes the first, the second line the second),
\* whatever the order of the lines; no item is given to two lines; and an
\* item whose checked state, indentation and parent are what its line asks
\* for keeps them, and is not touched at all unless the items are renumbered
\* because their sorts no longer descend.
C14_IdentityPreserved ==
    Reconciled => IdentityPreserved(Lines, ItemsBefore, ItemsAfter)

\* Two items of different texts were matched by two lines in the other
\* order, and kept what they had but for their sorts
C14_Witness ==
    /\ Reconciled
    /\ Len(ItemsBefore) = 2
    /\ Len(Lines) = 2
    /\ ItemsBefore[1].text # ItemsBefore[2].text
    /\ ItemsBefore[1].checked
    /\ Matched(Lines, ItemsBefore, 1) /\ Matched(Lines, ItemsBefore, 2)
    /\ ItemsAfter[1].ref = ItemsBefore[2].ref
    /\ ItemsAfter[2].ref = ItemsBefore[1].ref
    /\ ItemsAfter[2].checked
    /\ Renumbered(ItemsAfter)

NewItems(L, B, A) ==
    \A k \in DOMAIN L :
        ~Matched(L, B, k) =>
            /\ k \in DOMAIN A
            /\ A[k].ref \notin Refs(B)
            /\ A[k].text = Read(L, k).text
            /\ k > 1 => A[k].sort = A[k - 1].sort - SortStep
            /\ (k > 1 /\ Matched(L, B, k - 1) /\ ~Renumbered(A))
                  => A[k].sort = MatchOf(L, B, k - 1).sort - SortStep

\* C15: reconciliation makes a new item for every line whose text is the text
\* of no existing item that is still unmatched: the item has an id no
\* existing item has, and its sort is exactly 1,000,000 less than the sort of
\* the item of the line before it (which is that item's sort from before the
\* reconciliation when that item existed and nothing was renumbered).
C15_NewItemCreated ==
    Reconciled => NewItems(Lines, ItemsBefore, ItemsAfter)

\* The checklist [(a)] was reconciled with the lines a, b: b is a new item
\* whose sort is the sort a had, less 1,000,000
C15_Witness ==
    /\ Reconciled
    /\ Len(ItemsBefore) = 1
    /\ Len(Lines) = 2
    /\ Matched(Lines, ItemsBefore, 1)
    /\ ~Matched(Lines, ItemsBefore, 2)
    /\ Len(ItemsAfter) = 2
    /\ ItemsAfter[1] = ItemsBefore[1]
    /\ ItemsAfter[2].ref \notin Refs(ItemsBefore)
    /\ ItemsAfter[2].sort = ItemsBefore[1].sort - SortStep

UnmatchedDeleted(L, B, A) ==
    /\ \A j \in DOMAIN B :
        B[j].ref \in Refs(A)
            <=> \E k \in DOMAIN L : Matched(L, B, k) /\ MatchOf(L, B, k).ref = B[j].ref
    /\ Len(A) = Len(L)

\* C16: reconciliation deletes exactly the existing items the file left
\* unmatched: an existing item is among the items afterwards if and only if
\* a line was matched to it, and the note has as many items afterwards as the
\* file has body lines that are not blank.
C16_UnmatchedDeleted ==
    Reconciled => UnmatchedDeleted(Lines, ItemsBefore, ItemsAfter)

\* The checklist had two items and the file, one line and a blank one: the
\* item of the line is kept and the other is deleted
C16_Witness ==
    /\ Reconciled
    /\ Len(ItemsBefore) = 2
    /\ Len(TheFile.text) = 2
    /\ Len(Lines) = 1
    /\ Matched(Lines, ItemsBefore, 1)
    /\ ItemsAfter = <<MatchOf(Lines, ItemsBefore, 1)>>
    /\ ItemsAfter[1] = ItemsBefore[1]
    /\ ItemsBefore[2].ref \notin Refs(ItemsAfter)
\* Notes i and j are distinct, not trashed, materializable, in one partition
\* and have one escaped title
SameName(i, j) ==
    /\ i # j
    /\ ~notes[i].trashed /\ ~notes[j].trashed
    /\ filepath(i, notes[i], counts) # NoPath
    /\ filepath(j, notes[j], counts) # NoPath
    /\ notes[i].archived = notes[j].archived
    /\ escape(notes[i].title) = escape(notes[j].title)

\* C17: while the plugin is running, any two distinct notes that are not
\* trashed, are materializable, are in the same partition and have equal
\* escaped titles are given different file paths, each holding the note's
\* own id, whenever the paths are computed: never both the plain path of the
\* title.
C17_DistinctPaths ==
    state = "Running" =>
        \A i, j \in DOMAIN notes :
            SameName(i, j) =>
                /\ filepath(i, notes[i], counts) # filepath(j, notes[j], counts)
                /\ filepath(i, notes[i], counts).qual = i
                /\ filepath(j, notes[j], counts).qual = j

C19_AssertionsHold == log = <<>>

\* a thread inside "with lock": it entered and has not left
InProgress(t) == Live(t) /\ threads[t].pc # "spawned"

\* C20: the executions of an operation that thread_util.background runs
\* with its lock are serialized, whatever their arguments: at no time are
\* two _sync_notes threads, or two _write_files threads, inside the lock.
C20_Serialized ==
    \A t, u \in DOMAIN threads :
        /\ InProgress(t)
        /\ InProgress(u)
        /\ threads[t].op = threads[u].op
        => t = u

\* one sync cycle runs while a second one waits for the lock
C20_WitnessSync ==
    \E t, u \in DOMAIN threads :
        At(t, "_sync_notes", "entered") /\ At(u, "_sync_notes", "spawned")

\* one write-back pass runs while a second one waits for the lock
C20_Witness ==
    \E t, u \in DOMAIN threads :
        At(t, "_write_files", "entered") /\ At(u, "_write_files", "spawned")

\* the thread is counted as waiting or running: between the count under
\* countlock and the finally clause
Counted(t) ==
    /\ t \in DOMAIN threads
    /\ threads[t].pc \in {"waiting", "locked", "running", "returned", "raised"}

\* the thread makes its step under countlock at the head of the wrapper
Arrives(t) ==
    /\ At(t, "func", "spawned")
    /\ threads'[t].pc # "spawned"

\* C21: with max_waiting = 0 a call that arrives while another call with the
\* same arguments is waiting or running is dropped, a dropped call stays
\* dropped (its operation never runs), and a caller never blocks: as long as
\* calls are made at all, a call with any arguments can be made.
C21_DroppedWhenBusy ==
    /\ [][\A t \in DOMAIN threads :
            /\ (/\ locks.bounded
                /\ locks.max_waiting = 0
                /\ Arrives(t)
                /\ \E u \in DOMAIN threads :
                     u # t /\ Counted(u) /\ threads[u].kind = threads[t].kind)
               => threads'[t].pc = "dropped"
            /\ threads[t].pc = "dropped" => threads'[t].pc = "dropped"]_vars
    /\ [](Len(threads) < MaxCalls => \A key \in ArgTuples : ENABLED Call(key))

\* a call was dropped while the call that made it drop holds the lock
C21_Witness ==
    /\ locks.bounded
    /\ locks.max_waiting = 0
    /\ \E t, u \in DOMAIN threads :
        /\ threads[t].pc = "dropped"
        /\ threads[u].pc = "running"
        /\ threads[u].kind = threads[t].kind
        /\ u < t

\* the host's loop handles a "sync" request
SyncRequestHandled ==
    /\ queue # <<>>
    /\ Head(queue) = "sync"
    /\ queue' = Tail(queue)

\* a sync error was handled and config.state has not moved since
AfterSyncError == lastOp.op = "event_handle_sync_error"

Looping(t) ==
    /\ t \in DOMAIN threads
    /\ threads[t].op = "sync_bg_thread"
    /\ threads[t].pc \in {"check", "sleep"}

\* C23: the periodic loop ends only at a loop check that finds the plugin
\* ShuttingDown (a sync error, a logout, a reset and a new login leave it
\* running), and every tick made while the plugin is not shutting down hands
\* a "sync" request to the host's loop.
C23_LoopEndsAtShutdown ==
    [][\A t \in DOMAIN threads :
         /\ Looping(t) /\ threads'[t] = Done
            => threads[t].pc = "check" /\ state = "ShuttingDown"
         /\ Looping(t) /\ threads[t].pc = "sleep" /\ threads'[t].pc # "sleep"
            => /\ threads'[t].pc = "check"
               /\ state # "ShuttingDown" => queue' = Append(queue, "sync")]_vars

\* the loop started by the first login is still running, and has just
\* issued a request, while a new login's initial sync is under way
C23_Witness ==
    /\ state = "InitialSync"
    /\ \E t \in DOMAIN threads : Looping(t)
    /\ queue # <<>>
    /\ queue[Len(queue)] = "sync"

\* FileSync.start has run
Started == lastOp' = "start"

\* parsing the file at p into its note of the snapshot changes the note
ParseChanges(snapshot, d, p) ==
    [parse(d[p], snapshot[d[p].id]) EXCEPT !.dirty = FALSE]
        # [snapshot[d[p].id] EXCEPT !.dirty = FALSE]

Entries(dict) == {<<dict[i][1], dict[i][2]>> : i \in DOMAIN dict}

\* the note file that holds the id of snapshot nf before the call, or NoPath
FileOf(nf) ==
    IF \E p \in DOMAIN disk : url_from_file(p) /\ disk[p].id = nf.id
    THEN CHOOSE p \in DOMAIN disk : url_from_file(p) /\ disk[p].id = nf.id
    ELSE NoPath

\* the entry the snapshot nf calls for, if any
ExpectedEntries(nf) ==
    IF is_ephemeral(nf.bufname)
    THEN IF FileOf(nf) # NoPath
         THEN {<<FileOf(nf), nf.bufname>>} ELSE {}
    ELSE IF FileOf(nf) = NoPath
         THEN {<<ephemeral_bufname(nf.id, nf.title), nf.bufname>>}
         ELSE IF FileOf(nf) # nf.bufname
              THEN {<<FileOf(nf), nf.bufname>>} ELSE {}

\* C26: the rename map write_files returns holds exactly: existing path ->
\* new path for a materializable note whose file is elsewhere, existing
\* path -> virtual address for a non-materializable note that had a file,
\* and virtual address -> new path for a materializable note with no file.
\* The content of a note that has a file is written to that file, wherever
\* the note's target is.
C26_RenameMap ==
    [][WroteOnce =>
         /\ Entries(renames') =
              UNION {ExpectedEntries(pending.nfs[k]) : k \in DOMAIN pending.nfs}
         /\ \A i, j \in DOMAIN renames' :
              renames'[i][1] = renames'[j][1] => i = j
         /\ \A k \in DOMAIN pending.nfs, e \in DOMAIN log' :
              (/\ FileOf(pending.nfs[k]) # NoPath
               /\ log'[e].ev = "write"
               /\ log'[e].id = pending.nfs[k].id)
              => log'[e].path = FileOf(pending.nfs[k])]_vars

\* write_files returned a map with an entry of each of two kinds: a file to
\* move, and a virtual address that became a file
C26_Witness ==
    /\ lastOp = "write_files"
    /\ \E i, j \in DOMAIN renames :
        /\ renames[i][1] \in DOMAIN disk
        /\ ~is_ephemeral(renames[i][2])
        /\ is_ephemeral(renames[j][1])
        /\ ~is_ephemeral(renames[j][2])

\* a file moved away by write_files and a virtual address as target
C26_WitnessRemoved ==
    /\ lastOp = "write_files"
    /\ \E i \in DOMAIN renames :
        /\ ~is_ephemeral(renames[i][1])
        /\ is_ephemeral(renames[i][2])


(* C27: after finish_startup every resolvable file of the sync directory
   that had no id line has produced exactly one new note: the file is still
   there and carries an id that no note had before, a note with that id
   exists and has the file's title, and no two such files share the id. *)
NewFiles == {p \in _find_files(disk) : disk[p].id = NoId}
C27_NewFilesBecomeNotes ==
    [][FinishedStartup =>
        /\ \A p \in NewFiles :
            /\ p \in DOMAIN disk'
            /\ disk'[p].id # NoId
            /\ disk'[p].id \notin DOMAIN notes
            /\ disk'[p].id \in DOMAIN notes'
            /\ notes'[disk'[p].id].title = disk[p].title
        /\ \A p, q \in NewFiles :
            (p \in DOMAIN disk' /\ q \in DOMAIN disk' /\ p # q)
                => disk'[p].id # disk'[q].id]_vars


\* The item the loop gives line k: the existing item the line is matched to,
\* or the item made for it (the j-th line that is not matched makes the j-th
\* new item of the note)
LineRef(L, B, k) ==
    IF Matched(L, B, k) THEN MatchOf(L, B, k).ref
    ELSE [note |-> TheFile.id,
          k |-> Len(B) + Cardinality({j \in 1..k : ~Matched(L, B, j)})]

SortOfLine(L, B, A, k) == ItemAt(A, LineRef(L, B, k)).sort

LinesDescend(L, B, A) ==
    \A k \in 1..(Len(L) - 1) :
        /\ LineRef(L, B, k) \in Refs(A)
        /\ LineRef(L, B, k + 1) \in Refs(A)
        /\ SortOfLine(L, B, A, k) > SortOfLine(L, B, A, k + 1)

\* The sorts the items of the lines had before the loop ended never rose
\* from one line to the next, so that nothing was renumbered
InOrder(L, B) ==
    \A k \in 1..(Len(L) - 1) :
        (Matched(L, B, k) /\ Matched(L, B, k + 1))
            => MatchOf(L, B, k).sort > MatchOf(L, B, k + 1).sort

\* C28: after checklist reconciliation the order of the file's lines is the
\* order of the sorts: of the items of two consecutive lines that are not
\* blank, the earlier has the strictly greater sort, whether the items were
\* renumbered or not.
C28_FileOrderIsSortOrder ==
    Reconciled => LinesDescend(Lines, ItemsBefore, ItemsAfter)

\* Two existing items of different texts were given to the lines in the
\* other order: the one that had the smaller sort now has the greater
C28_Witness ==
    /\ Reconciled
    /\ Len(ItemsBefore) = 2
    /\ Len(Lines) = 2
    /\ Matched(Lines, ItemsBefore, 1) /\ Matched(Lines, ItemsBefore, 2)
    /\ ~InOrder(Lines, ItemsBefore)
    /\ MatchOf(Lines, ItemsBefore, 1).sort < MatchOf(Lines, ItemsBefore, 2).sort
    /\ SortOfLine(Lines, ItemsBefore, ItemsAfter, 1)
          > SortOfLine(Lines, ItemsBefore, ItemsAfter, 2)

\* The lines kept the order of the two items and added a third: nothing was
\* renumbered and the sorts descend
C28_WitnessInOrder ==
    /\ Reconciled
    /\ Len(ItemsBefore) = 2
    /\ Len(Lines) = 2
    /\ InOrder(Lines, ItemsBefore)
    /\ Matched(Lines, ItemsBefore, 1) /\ Matched(Lines, ItemsBefore, 2)
    /\ ~Renumbered(ItemsAfter)
    /\ SortOfLine(Lines, ItemsBefore, ItemsAfter, 1) = ItemsBefore[1].sort
    /\ SortOfLine(Lines, ItemsBefore, ItemsAfter, 2) = ItemsBefore[2].sort


\* The parent line k asks for: the item of the nearest line before it that
\* is not indented
ParentRef(L, B, k) ==
    IF Indented(L, k) THEN LineRef(L, B, ParentLine(L, k)) ELSE NoRef

Parents(A, x) == {p \in Refs(A) : \E j \in subitems(A, p) : A[j].ref = x.ref}

WellNested(L, B, A) ==
    /\ \A k \in DOMAIN L :
        /\ LineRef(L, B, k) \in Refs(A)
        /\ ItemAt(A, LineRef(L, B, k)).parent = ParentRef(L, B, k)
    /\ \A j \in DOMAIN A :
        A[j].parent # NoRef =>
            /\ Parents(A, A[j]) = {A[j].parent}
            /\ ItemAt(A, A[j].parent).parent = NoRef
            /\ subitems(A, A[j].ref) = {}

\* C29: after checklist reconciliation every indented item has exactly one
\* parent, which is the item of the nearest preceding line that is not
\* indented (an item of the note afterwards); an item is indented exactly
\* when its line is, the first line apart; and no indented item has items
\* under it.
C29_OneLevelNesting ==
    Reconciled => WellNested(Lines, ItemsBefore, ItemsAfter)

\* The item b was under a; the file has a line of a new text and b indented
\* under it: b has moved to the new item and its old parent is deleted
C29_Witness ==
    /\ Reconciled
    /\ Len(ItemsBefore) = 2
    /\ ItemsBefore[2].parent = ItemsBefore[1].ref
    /\ Len(Lines) = 2
    /\ ~Matched(Lines, ItemsBefore, 1)
    /\ Matched(Lines, ItemsBefore, 2)
    /\ MatchOf(Lines, ItemsBefore, 2) = ItemsBefore[2]
    /\ Indented(Lines, 2)
    /\ ItemsBefore[1].ref \notin Refs(ItemsAfter)
    /\ ItemAt(ItemsAfter, ItemsBefore[2].ref).parent = LineRef(Lines, ItemsBefore, 1)
    /\ LineRef(Lines, ItemsBefore, 1) \notin Refs(ItemsBefore)

\* The item b was under a; the file has b first and a indented under it: the
\* parent has become the child of its child
C29_WitnessTurned ==
    /\ Reconciled
    /\ Len(ItemsBefore) = 2
    /\ ItemsBefore[2].parent = ItemsBefore[1].ref
    /\ Len(Lines) = 2
    /\ LineRef(Lines, ItemsBefore, 1) = ItemsBefore[2].ref
    /\ LineRef(Lines, ItemsBefore, 2) = ItemsBefore[1].ref
    /\ ItemAt(ItemsAfter, ItemsBefore[2].ref).parent = NoRef
    /\ ItemAt(ItemsAfter, ItemsBefore[1].ref).parent = ItemsBefore[2].ref



\* Lines of any shape were parsed into the checklist: the lines given, the
\* note afterwards and the item of the k-th line of the body that is not
\* blank
FileParsed == lastOp = "parse"

GivenLines == log[1].lines

ParsedNote == notes[CHOOSE i \in DOMAIN notes : TRUE]

ItemOfLine(k) == ItemAt(ParsedNote.items, LineRef(Lines, ItemsBefore, k))

NoIdLine(lines) == \A k \in DOMAIN lines : lines[k].kind # "id"

Tolerated ==
    /\ log[1].failed = {}
    /\ Len(ParsedNote.items) = Len(Lines)
    /\ \A k \in DOMAIN Lines : LineRef(Lines, ItemsBefore, k) \in Refs(ParsedNote.items)
    /\ Lines # <<>> => ItemOfLine(1).parent = NoRef
    /\ NoIdLine(GivenLines) => DOMAIN notes = DOMAIN cache.notes

\* C30 as stated: parse completes without error on any lines; a leading
\* indented line yields an item that is not indented, a blank line yields no
\* item, a file without an id line leaves the note's id unchanged, and a line
\* that is no checkbox item yields an unchecked item.
C30_Original ==
    FileParsed =>
        /\ Tolerated
        /\ \A k \in DOMAIN Lines : Lines[k].kind # "item" => ~ItemOfLine(k).checked

\* C30: parse completes without error on any lines (no assertion of the
\* loop fails); the note has one item for every line of the body that is not
\* blank and none for a blank line; the item of a leading indented line is
\* not indented; a file without an id line leaves the note's id unchanged;
\* and a line that is no checkbox item yields an item that is unchecked
\* unless the line is indented under a checked item, whose checked state it
\* takes as every indented line does.
C30_ParseTolerant ==
    FileParsed =>
        /\ Tolerated
        /\ \A k \in DOMAIN Lines :
            Lines[k].kind # "item" =>
                (ItemOfLine(k).checked
                    <=> (Indented(Lines, k) /\ Read(Lines, ParentLine(Lines, k)).checked))

\* The lines have no header: a blank line, a checked item, and an indented
\* line that is no item, which is checked as its parent is
C30_Witness ==
    /\ FileParsed
    /\ Len(GivenLines) = 3
    /\ _parse_meta(GivenLines) = [title |-> "", id |-> NoId, i |-> 0]
    /\ GivenLines[1].kind = "blank"
    /\ Len(Lines) = 2
    /\ Read(Lines, 1).checked
    /\ Lines[2].kind = "raw" /\ Indented(Lines, 2)
    /\ ItemOfLine(2).checked
    /\ ItemOfLine(2).parent = ItemOfLine(1).ref
    /\ log[1].failed = {}

\* The first line of the body is indented, and its item had a parent: the
\* item is not indented afterwards
C30_WitnessLeading ==
    /\ FileParsed
    /\ Len(Lines) >= 1
    /\ Read(Lines, 1).indented
    /\ Matched(Lines, ItemsBefore, 1)
    /\ MatchOf(Lines, ItemsBefore, 1).parent # NoRef
    /\ ItemOfLine(1).parent = NoRef
    /\ NoIdLine(GivenLines)
    /\ DOMAIN notes = {1}


\* C31: the protected set is empty in every state in which the plugin is
\* Running.
C31_NoProtectedWhileRunning == state = "Running" => protected = {}


\* finish_startup raised: an assert or a rename of its own failed, or a file
\* operation raised an OSError
FailedStartup ==
    /\ pc = "fetched"
    /\ lastOp' \in {"finish_startup_failed", "finish_startup_io_failed"}

LaterOn(events, k, p) ==
    \E j \in (k + 1)..Len(events) : events[j].ev \in FileOps /\ events[j].path = p

\* What the operations of the pass did is on disk, and nothing else changed
NoRollback(before, events, after) ==
    /\ \A k \in DOMAIN events :
        /\ (events[k].ev = "write" /\ ~LaterOn(events, k, events[k].path))
              => /\ events[k].path \in DOMAIN after
                 /\ after[events[k].path] = events[k].lines
        /\ (events[k].ev \in {"softdelete", "unlink"}
                /\ ~LaterOn(events, k, events[k].path))
              => events[k].path \notin DOMAIN after
        /\ events[k].ev = "softdelete"
              => get_local_file(events[k].path) \in DOMAIN after
    /\ \A p \in DOMAIN before :
        (\A k \in DOMAIN events :
            events[k].ev \in FileOps
                => (events[k].path # p /\ get_local_file(events[k].path) # p))
          => (p \in DOMAIN after /\ after[p] = before[p])

\* C32: when finish_startup fails partway, the error leaves it (the plugin
\* is reset by the error callback and does not become Running by that
\* startup), and the files the pass had written, renamed or removed before
\* the failure stay as the pass left them: nothing is rolled back.
C32_NoRollbackNotRunning ==
    [][FailedStartup =>
        /\ state' = "Uninitialized"
        /\ pc' = "failed"
        /\ NoRollback(disk, log', disk')]_vars

\* A file operation raised after the pass had written a file: the file
\* holds what was written and the plugin is not Running
C32_Witness ==
    /\ lastOp = "finish_startup_io_failed"
    /\ state = "Uninitialized"
    /\ Len(log) >= 2
    /\ log[1].ev = "write"
    /\ log[Len(log)].ev = "oserror"
    /\ log[Len(log)].path # log[1].path
    /\ log[1].path \in DOMAIN disk
    /\ disk[log[1].path] = log[1].lines

(***************************************************************************)
(* C33: while the state is InitialSync no foreground handler changes the   *)
(* notes or the labels of KeepApi: finish_startup has the note store to    *)
(* itself.                                                                 *)
(***************************************************************************)
C33_NoForegroundMutationInInitialSync ==
    [][state = "InitialSync" /\ lastOp' \in ForegroundOps
        => notes' = notes /\ labels' = labels]_vars

\* the same for the notes alone
C33_NotesUntouchedInInitialSync ==
    [][state = "InitialSync" /\ lastOp' \in ForegroundOps
        => notes' = notes]_vars

(***************************************************************************)
(* C34: a file finish_startup overwrites while its content differs from    *)
(* the serialization of the cached note (it was protected by start, or it  *)
(* was edited after start read it) has its prior content at <path>.local   *)
(* afterwards.                                                             *)
(***************************************************************************)
Overwritten(events, p) ==
    \E k \in DOMAIN events : events[k].ev = "write" /\ events[k].path = p

\* the file differs from what the cached snapshot serializes to
LocallyChanged(p) ==
    \/ p \in protected /\ ~Edited(log, p)
    \/ p \notin protected /\ Edited(log, p)

Preserved(p) ==
    /\ get_local_file(p) \in DOMAIN disk'
    /\ disk'[get_local_file(p)] = disk[p]

C34_NoEditLostDuringStartup ==
    [][FinishedStartup =>
        \A p \in _find_files(disk) :
            (Overwritten(log', p) /\ LocallyChanged(p)) => Preserved(p)]_vars

\* the same for the files start found changed and nobody edited since
C34_ProtectedFilesPreserved ==
    [][FinishedStartup =>
        \A p \in _find_files(disk) :
            (Overwritten(log', p) /\ p \in protected /\ ~Edited(log, p))
                => Preserved(p)]_vars

\* the same for the files edited after start found them unchanged
C34_LateEditsPreserved ==
    [][FinishedStartup =>
        \A p \in _find_files(disk) :
            (Overwritten(log', p) /\ p \notin protected /\ Edited(log, p))
                => Preserved(p)]_vars

(***************************************************************************)
(* C35: the counters of wrap_lock are bounded in every reachable state:    *)
(* for each key run_count is 0 or 1, wait_count is not negative, with      *)
(* max_waiting = 0 run_count + wait_count is at most 1, and with           *)
(* max_waiting = k > 0 wait_count is at most k.                            *)
(***************************************************************************)
C35_CountersBounded ==
    \A key \in ArgTuples :
        /\ locks.run_count[key] \in {0, 1}
        /\ locks.wait_count[key] >= 0
        /\ (locks.bounded /\ locks.max_waiting = 0)
              => locks.run_count[key] + locks.wait_count[key] <= 1
        /\ (locks.bounded /\ locks.max_waiting > 0)
              => locks.wait_count[key] <= locks.max_waiting

\* a call of a key runs, one waits at the bound, and a third was dropped
C35_Witness ==
    /\ locks.bounded
    /\ locks.max_waiting > 0
    /\ \E key \in ArgTuples :
        /\ locks.run_count[key] = 1
        /\ locks.wait_count[key] = locks.max_waiting
        /\ \E t \in DOMAIN threads :
            threads[t].kind = key /\ threads[t].pc = "dropped"

(***************************************************************************)
(* C36: an operation that raises does not wedge the dispatcher: the step   *)
(* that ends the failed call releases the lock and takes the call off the  *)
(* key's run_count, and once no call of a key is under way a new call of   *)
(* that key is not dropped and finds the lock free when no call holds it,  *)
(* with max_waiting = 0 too.                                               *)
(***************************************************************************)
UnderWay(t) == threads[t].pc \in {"waiting", "locked", "running", "returned", "raised"}

Holding(t) == threads[t].pc \in {"locked", "running", "returned", "raised"}

FailedCall(key) ==
    \E t \in DOMAIN threads : threads[t].kind = key /\ threads[t].pc = "failed"

Accepting(key) ==
    /\ FailedCall(key)
    /\ \A t \in DOMAIN threads : threads[t].kind = key => ~UnderWay(t)

C36_FailureDoesNotWedge ==
    [][/\ \A t \in DOMAIN threads :
            (threads[t].pc = "raised" /\ threads'[t].pc = "failed")
                => /\ locks'.lock = 0
                   /\ locks.bounded =>
                        locks'.run_count[threads[t].kind]
                            = locks.run_count[threads[t].kind] - 1
       /\ \A key \in ArgTuples :
            Accepting(key)' => (locks.bounded => ~Dropped(locks, key))'
       /\ (\E key \in ArgTuples : FailedCall(key))'
            => ((\A t \in DOMAIN threads : ~Holding(t)) => locks.lock = 0)']_vars

\* with max_waiting = 0, a call of a key failed and a later call of the same
\* key ran to its end
C36_Witness ==
    /\ locks.bounded
    /\ locks.max_waiting = 0
    /\ \E t, u \in DOMAIN threads :
        /\ t < u
        /\ threads[t].kind = threads[u].kind
        /\ threads[t].pc = "failed"
        /\ threads[u].pc = "done"

(***************************************************************************)
(* C37: under fair scheduling and with operations that terminate, every    *)
(* call the dispatcher accepted (it waits for the lock) runs its operation *)
(* to the end, and runs it once: a call that ended never runs again.  A    *)
(* dispatcher without max_waiting drops no call.                           *)
(***************************************************************************)
Ended(t) == threads[t].pc \in {"done", "failed", "dropped"}

C37_AcceptedCallsExecute ==
    /\ \A t \in 1..MaxCalls :
        (t \in DOMAIN threads /\ threads[t].pc = "waiting")
            ~> (t \in DOMAIN threads /\ threads[t].pc \in {"done", "failed"})
    /\ [][\A t \in DOMAIN threads : Ended(t) => threads'[t] = threads[t]]_vars
    /\ [](~locks.bounded =>
            \A t \in DOMAIN threads : threads[t].pc # "dropped")

\* without max_waiting three calls of one key were made and all three ran
C37_Witness ==
    /\ ~locks.bounded
    /\ Len(threads) = MaxCalls
    /\ \A t \in DOMAIN threads :
        threads[t].kind = "a" /\ threads[t].pc \in {"done", "failed"}

(***************************************************************************)
(* C38: at most one periodic loop is alive (waiting for the lock or inside *)
(* the loop) in every reachable state, however often startup completes: a  *)
(* call of sync_bg_thread that arrives while another is alive is dropped.  *)
(***************************************************************************)
Alive(t) ==
    /\ t \in DOMAIN threads
    /\ threads[t].op = "sync_bg_thread"
    /\ threads[t].pc \in {"spawned", "entered", "check", "sleep"}

C38_OnePeriodicLoop ==
    /\ [](Cardinality({t \in DOMAIN threads : Alive(t)}) <= 1)
    /\ [][\A t, u \in DOMAIN threads :
            (Alive(t) /\ threads[u].op = "sync_bg_thread"
                /\ threads[u].pc = "called" /\ threads'[u] # threads[u])
                => threads'[u] = Done]_vars

\* startup completed a second time while the loop of the first is running:
\* the second call of sync_bg_thread has been made
C38_Witness ==
    /\ state = "Running"
    /\ \E t, u \in DOMAIN threads :
        /\ t < u
        /\ Looping(t)
        /\ threads[u].op = "sync_bg_thread"
        /\ threads[u].pc = "called"

(***************************************************************************)
(* C39: parse is idempotent: parsing the same lines into the note a second *)
(* time, right after the first, changes no field of the note or of its     *)
(* items, and adds or deletes none.                                        *)
(***************************************************************************)
ParsedAgain == lastOp = "parse" /\ lastOp' = "parse_again"

C39_ParseIdempotent == [][ParsedAgain => notes' = notes]_vars

\* the same when no assertion of the parser failed in the first pass
C39_CleanParseIdempotent ==
    [][(ParsedAgain /\ log[1].failed = {}) => notes' = notes]_vars

\* the first pass changed the items of the note, the second pass has run
C39_Witness ==
    /\ lastOp = "parse_again"
    /\ log[1].failed = {}
    /\ Len(log[1].lines) = MaxFileLines
    /\ \E i \in DOMAIN notes :
        /\ i \in DOMAIN cache.notes
        /\ notes[i].items # cache.notes[i].items
        /\ notes[i].items # <<>>

(***************************************************************************)
(* C40: after the checklist was reconciled with the lines, every indented  *)
(* item whose parent is checked is checked itself, also when its line has  *)
(* an empty checkbox.                                                      *)
(***************************************************************************)
ChildrenFollow(items) ==
    \A j \in DOMAIN items :
        (items[j].parent # NoRef /\ ItemAt(items, items[j].parent).checked)
            => items[j].checked

C40_CheckedParentChecksChildren ==
    Reconciled =>
        \A i \in DOMAIN notes :
            notes[i].kind = "list" => ChildrenFollow(notes[i].items)

\* a line with an empty checkbox, indented under a checked item, was
\* reconciled: its item is checked
C40_Witness ==
    /\ Reconciled
    /\ \E p \in DOMAIN disk : \E k \in DOMAIN disk[p].text :
        /\ k > 1
        /\ disk[p].text[k].kind = "item"
        /\ disk[p].text[k].indented
        /\ disk[p].text[k].box = " "
        /\ disk[p].text[k - 1].kind = "item"
        /\ ~disk[p].text[k - 1].indented
        /\ disk[p].text[k - 1].box = "x"
        /\ \E i \in DOMAIN notes : \E j \in DOMAIN notes[i].items :
            /\ notes[i].items[j].text = strip(disk[p].text[k].text)
            /\ notes[i].items[j].parent # NoRef
            /\ notes[i].items[j].checked

====
